---- MODULE Spec2Model ----
(***************************************************************************)
(* Model of the issue estimator's request admission (rateLimit middleware) *)
(* and of the route handlers that call it.                                 *)
(***************************************************************************)
EXTENDS Integers, Sequences, FiniteSets, TLC

(***************************************************************************)
(* Program constants of checkRateLimit, in milliseconds and requests.      *)
(***************************************************************************)
DAILY_HORIZON == 24 * 60 * 60 * 1000
SHORT_HORIZON == 5 * 60 * 1000
DAILY_LIMIT == 100
SHORT_LIMIT == 10

(***************************************************************************)
(* Bounds of the model: the client addresses and the instants at which     *)
(* Date.now() is observed.                                                 *)
(***************************************************************************)
NumSlots == 9

IPs == {"a", "b"}

\* the address whose calls are followed through a whole day
Busy == {"a"}

\* the clients: one behind a proxy that names it in x-forwarded-for, two whose
\* requests carry no such header
Clients == {"p", "d1", "d2"}

Proxied == {"p"}

\* request.headers.get('x-forwarded-for') as the list of its comma-separated
\* parts; << >> is null, <<"">> the empty string
Header(c) == IF c = "p" THEN <<"a", " b">> ELSE << >>

HeaderLess == {c \in Clients : Header(c) = << >>}

\* forwarded ? forwarded.split(',')[0] : '' with no name for the absent header
getClientIP_noFallback(forwarded) == IF forwarded \in {<< >>, <<"">>} THEN "" ELSE forwarded[1]

\* const ip = forwarded ? forwarded.split(',')[0] : 'unknown'
getClientIP(forwarded) == IF forwarded \in {<< >>, <<"">>} THEN "unknown" ELSE forwarded[1]

\* the requests in flight at once, and the instants of the step-by-step runs
Requests == {1, 2}

CallTimes == {0, SHORT_HORIZON + 1000, DAILY_HORIZON + 1}

ClientTimes ==
  {0, DAILY_HORIZON - 1000, DAILY_HORIZON + 1, DAILY_HORIZON + SHORT_HORIZON + 1000}

\* the requests whose route handler is followed step by step
Slots == {1}

Times ==
  {0, SHORT_HORIZON}
    \cup {k * (SHORT_HORIZON + 1000) : k \in 1..NumSlots}
    \cup {DAILY_HORIZON - 1000, DAILY_HORIZON, DAILY_HORIZON + 1,
          DAILY_HORIZON + SHORT_HORIZON + 1000}

VARIABLES
  clock,      \* Date.now()
  store,      \* the RateLimitStore: address -> its two windows
  response,   \* what the last checkRateLimit call returned
  recent,     \* per address, the instants of its admitted calls of the last 5 minutes
  calls,      \* per request, the position of its checkRateLimit call and its locals
  running,    \* the request whose callback holds the event loop; 0 when it is free
  shadow,     \* the same calls on a store that is never swept, and the addresses swept
  http,       \* per request, the route handler serving it and how far it has come
  batch,      \* one streaming run: its estimateIssuesBatch call and its event stream
  tracker,    \* one run's reading of the issue tracker: the open issues and their comments
  sheet,      \* the estimations handed to convertEstimationsToCSV and the text it returned
  admitted,   \* per client, the instants of its admitted requests of the last 5 minutes
  pager,      \* one client of the batched endpoint: the requests it made and what came back
  request     \* one request body and the estimation parameters the handler read from it

vars == <<clock, store, response, recent, calls, running, shadow, http, batch, tracker, sheet, admitted, pager, request>>

NoResponse ==
  [ip |-> "", kind |-> "none", status |-> 0, retryAfter |-> 0, reset |-> 0, at |-> 0]

\* Math.ceil(x / 1000) for an integer x
CeilSeconds_floor(x) == x \div 1000

CeilSeconds(x) == (x + 999) \div 1000

NewEntry(now) ==
  [daily |-> [count |-> 0, resetTime |-> now + DAILY_HORIZON],
   shortTerm |-> [count |-> 0, resetTime |-> now + SHORT_HORIZON]]

\* the lazy reset of the two windows
ResetDaily(ipData, now) ==
  IF ipData.daily.resetTime < now
    THEN [ipData EXCEPT !.daily = [count |-> 0, resetTime |-> now + DAILY_HORIZON]]
    ELSE ipData

ResetShort_fromResetTime(ipData, now) ==
  IF ipData.shortTerm.resetTime < now
    THEN [ipData EXCEPT !.shortTerm =
            [count |-> 0, resetTime |-> ipData.shortTerm.resetTime + SHORT_HORIZON]]
    ELSE ipData

ResetShort_keepsCount(ipData, now) ==
  IF ipData.shortTerm.resetTime < now
    THEN [ipData EXCEPT !.shortTerm.resetTime = now + SHORT_HORIZON]
    ELSE ipData

ResetShort(ipData, now) ==
  IF ipData.shortTerm.resetTime < now
    THEN [ipData EXCEPT !.shortTerm = [count |-> 0, resetTime |-> now + SHORT_HORIZON]]
    ELSE ipData

\* ipData.daily.count++; ipData.shortTerm.count++
Increment_dailyOnly(ipData) == [ipData EXCEPT !.daily.count = @ + 1]

\* the two limit checks
DailyExceeded_gt(ipData) == ipData.daily.count > DAILY_LIMIT

DailyExceeded(ipData) == ipData.daily.count >= DAILY_LIMIT

ShortExceeded_gt(ipData) == ipData.shortTerm.count > SHORT_LIMIT

ShortExceeded(ipData) == ipData.shortTerm.count >= SHORT_LIMIT

\* the 429 response of a window: body.retryAfter, and the X-RateLimit-Reset-* header;
\* at is the instant of the call that was denied
Deny(ip, kind, window, now) ==
  [ip |-> ip, kind |-> kind, status |-> 429,
   retryAfter |-> CeilSeconds(window.resetTime - now),
   reset |-> window.resetTime, at |-> now]

\* return null
Allow(ip) ==
  [ip |-> ip, kind |-> "null", status |-> 0, retryAfter |-> 0, reset |-> 0, at |-> 0]

Increment(ipData) ==
  [ipData EXCEPT !.daily.count = @ + 1, !.shortTerm.count = @ + 1]

\* Put(st, ip, e): the store with store[ip] = e
Put_everyKey(st, ip, e) == [k \in DOMAIN st \cup {ip} |-> e]

Put(st, ip, e) == [k \in DOMAIN st \cup {ip} |-> IF k = ip THEN e ELSE st[k]]

\* checkRateLimit on store st for address ip at Date.now() = now:
\* the store it leaves and the response it returns
checkRateLimit_shortFirst(st, ip, now) ==
  LET init == IF ip \in DOMAIN st THEN st[ip] ELSE NewEntry(now)
      ipData == ResetShort(ResetDaily(init, now), now)
  IN  IF ShortExceeded(ipData)
        THEN [store |-> Put(st, ip, ipData),
              resp |-> Deny(ip, "short", ipData.shortTerm, now)]
      ELSE IF DailyExceeded(ipData)
        THEN [store |-> Put(st, ip, ipData),
              resp |-> Deny(ip, "daily", ipData.daily, now)]
      ELSE [store |-> Put(st, ip, Increment(ipData)),
            resp |-> Allow(ip)]

checkRateLimit_countsDenied(st, ip, now) ==
  LET init == IF ip \in DOMAIN st THEN st[ip] ELSE NewEntry(now)
      ipData == Increment(ResetShort(ResetDaily(init, now), now))
  IN  IF ipData.daily.count > DAILY_LIMIT
        THEN [store |-> Put(st, ip, ipData),
              resp |-> Deny(ip, "daily", ipData.daily, now)]
      ELSE IF ipData.shortTerm.count > SHORT_LIMIT
        THEN [store |-> Put(st, ip, ipData),
              resp |-> Deny(ip, "short", ipData.shortTerm, now)]
      ELSE [store |-> Put(st, ip, ipData),
            resp |-> Allow(ip)]

checkRateLimit(st, ip, now) ==
  LET init == IF ip \in DOMAIN st THEN st[ip] ELSE NewEntry(now)
      ipData == ResetShort(ResetDaily(init, now), now)
  IN  IF DailyExceeded(ipData)
        THEN [store |-> Put(st, ip, ipData),
              resp |-> Deny(ip, "daily", ipData.daily, now)]
      ELSE IF ShortExceeded(ipData)
        THEN [store |-> Put(st, ip, ipData),
              resp |-> Deny(ip, "short", ipData.shortTerm, now)]
      ELSE [store |-> Put(st, ip, Increment(ipData)),
            resp |-> Allow(ip)]

\* the setInterval callback: entries with both windows expired are deleted
Expired_either(e, now) == e.daily.resetTime < now \/ e.shortTerm.resetTime < now

Expired(e, now) == e.daily.resetTime < now /\ e.shortTerm.resetTime < now

sweep(st, now) ==
  LET keep == {ip \in DOMAIN st : ~Expired(st[ip], now)}
  IN  [ip \in keep |-> st[ip]]

\* the instants of seq s that lie less than 5 minutes before now
Within(s, now) ==
  LET In(t) == t > now - SHORT_HORIZON IN SelectSeq(s, In)

\* a request that is not in checkRateLimit
Idle == [pc |-> "idle", ip |-> "", now |-> 0, seen |-> [count |-> 0, resetTime |-> 0],
         snap |-> << >>, res |-> NoResponse]

\* a request slot with no request in it
NoRequest == [pc |-> "idle", ep |-> "", client |-> "", ip |-> "", link |-> "", start |-> 0,
              decision |-> "none", n |-> 0, github |-> 0, inference |-> 0,
              outcome |-> "none"]

(***************************************************************************)
(* The estimator and the stream of one run of POST /estimate-repo-issues   *)
(* with stream = true: the data they work on.                              *)
(***************************************************************************)
\* const batchSize = 5
batchSize == 5

\* the longest issue list of a run whose replies vary
MaxBatchIssues == 6

\* the length of the long issue list, whose calls all get the same reply
LongList == 23

Tiers == {"low", "medium", "high", "critical"}

EXAMPLE_PARAMS == [minBudget |-> 100, maxBudget |-> 1000, model |-> "gpt-5-nano"]

\* JavaScript values: a number, undefined, NaN
Num(v) == [kind |-> "number", v |-> v]
Undefined == [kind |-> "undefined", v |-> 0]
NaN == [kind |-> "NaN", v |-> 0]

\* what the chat completion call gives: a rejection, no content, content that
\* is not JSON, or a JSON object with the keys complexity and estimatedCost
\* ("undefined" where the key is absent, as in {"error": "..."})
Content(form) == [form |-> form, complexity |-> "undefined", estimatedCost |-> Undefined]
Json(c, e) == [form |-> "json", complexity |-> c, estimatedCost |-> e]

Failures == {Content("reject"), Content("empty"), Content("text")}

Replies ==
  Failures \cup {Json("low", Num(200)), Json("high", Num(5000)), Json("undefined", Undefined)}

\* the reply every call of the long list gets
SameReplies == {Json("medium", Num(400))}

\* the n issues of a repository, newest first
IssueList(n) == [k \in 1..n |-> 100 + n - k]

\* estimateIssue: the IssueEstimation it returns, or the error it throws,
\* whose message names the issue
Thrown_unnamed(number) ==
  [ok |-> FALSE, issueNumber |-> 0, complexity |-> "undefined", estimatedCost |-> Undefined]

Failed(number) ==
  [ok |-> FALSE, issueNumber |-> number, complexity |-> "undefined", estimatedCost |-> Undefined]

estimateIssue(number, reply, saveToFile, disk) ==
  IF reply.form = "reject" THEN Failed(number)
  ELSE IF reply.form = "empty" THEN Failed(number)
  ELSE IF reply.form = "text" THEN Failed(number)
  ELSE IF saveToFile /\ ~disk THEN Failed(number)
  ELSE [ok |-> TRUE, issueNumber |-> number,
        complexity |-> reply.complexity, estimatedCost |-> reply.estimatedCost]

\* Math.ceil(a / b)
CeilDiv(a, b) == (a + b - 1) \div b

\* Math.min(a, b)
Min(a, b) == IF a < b THEN a ELSE b

\* sum + est.estimatedCost
Plus(sum, cost) ==
  IF sum.kind = "number" /\ cost.kind = "number" THEN Num(sum.v + cost.v) ELSE NaN

RECURSIVE ReduceCost(_, _)
ReduceCost(sum, ests) ==
  IF ests = << >> THEN sum ELSE ReduceCost(Plus(sum, Head(ests).estimatedCost), Tail(ests))

\* estimations.reduce((sum, est) => sum + est.estimatedCost, 0)
totalCost_skipsFirst(ests) == ReduceCost(Num(0), IF ests = << >> THEN ests ELSE Tail(ests))

totalCost(ests) == ReduceCost(Num(0), ests)

\* totalCost / (estimations.length || 1)
avgCost_orZero(total, len) ==
  IF total.kind = "number"
     THEN [kind |-> "number", num |-> total.v, den |-> IF len > 0 THEN len ELSE 1]
     ELSE [kind |-> "NaN", num |-> 0, den |-> 0]

\* totalCost / estimations.length, as the quotient num / den
avgCost(total, len) ==
  IF total.kind = "number" /\ len > 0
     THEN [kind |-> "number", num |-> total.v, den |-> len]
     ELSE [kind |-> "NaN", num |-> 0, den |-> 0]

\* the histogram of the tiers: a key for each complexity that occurs
complexityCounts(ests) ==
  [t \in {ests[k].complexity : k \in DOMAIN ests} |->
     Cardinality({k \in DOMAIN ests : ests[k].complexity = t})]

NoSummary == [made |-> FALSE, totalCost |-> Num(0), avgCost |-> avgCost(Num(0), 1),
              complexityCounts |-> << >>]

\* the events of the stream
Event(type, message) == [type |-> type, message |-> message, k |-> 0, K |-> 0, c |-> 0, n |-> 0]

\* `> BATCH ${batchNum}/${totalBatches} | ISSUES ${current}/${total}`
BatchEvent(current, total) ==
  [type |-> "log", message |-> "BATCH", k |-> CeilDiv(current, 5), K |-> CeilDiv(total, 5),
   c |-> current, n |-> total]

Terminal == {"complete", "error"}

\* no run; overtaken records that a call returned before an earlier call of its
\* group, files the issues whose estimation file is written, late that a call
\* returned its result after the run was over
NoRun == [pc |-> "idle", tiers |-> FALSE, complexityBudgets |-> << >>, prompt |-> << >>,
          issues |-> << >>, i |-> 0, call |-> << >>, batchEstimations |-> << >>,
          estimations |-> << >>, returned |-> FALSE, progress |-> << >>, events |-> << >>,
          closed |-> FALSE, cancelled |-> FALSE, threw |-> FALSE, unhandled |-> FALSE,
          error |-> 0, summary |-> NoSummary, csv |-> FALSE, overtaken |-> FALSE,
          files |-> {}, late |-> FALSE]


(***************************************************************************)
(* The issue tracker as fetchAllOpenIssues and fetchIssueComments see it:  *)
(* a collection read page by page, perPage items to a page.                *)
(***************************************************************************)

perPage == 100

\* full pages of the open items of a repository, and issues followed in detail
MaxFullPages == 2

SmallPage == 3

PageKinds == {"issues", "pulls", "mixed"}

LastSizes == {0, SmallPage, perPage - 1}

\* 'pull_request' in item, for item k of a page of some kind
IsPull(kind, k) == kind = "pulls" \/ (kind = "mixed" /\ k % 2 = 0)

\* the open items of a repository: full pages of the given kinds, then a short one
Items(kinds, last, lastKind) ==
  [k \in 1..(perPage * Len(kinds) + last) |->
     [id |-> k,
      pull_request |-> IsPull(IF k <= perPage * Len(kinds)
                                 THEN kinds[((k - 1) \div perPage) + 1] ELSE lastKind, k)]]

Collections ==
  {Items(kinds, last, lastKind) :
     kinds \in UNION {[1..f -> PageKinds] : f \in 0..MaxFullPages},
     last \in LastSizes, lastKind \in PageKinds}

\* what a list request answers for a page: up to perPage items from the page's offset
listPage(all, page) ==
  SubSeq(all, (page - 1) * perPage + 1, Min(page * perPage, Len(all)))

\* issues.filter((issue) => !('pull_request' in issue))
NotPull(issue) == ~issue.pull_request

actualIssues(issues) == SelectSeq(issues, NotPull)

\* whether the loop of fetchAllOpenIssues ends after a page
LastPage_filtered(issues) == Len(actualIssues(issues)) < perPage

\* the loop going on until a page comes back empty
LastPage_empty(issues) == Len(issues) = 0

LastPage(issues) == Len(issues) < perPage

\* the comments of an issue, oldest first
CommentCounts == {0, perPage, perPage + 1}

Thread(number, count) == [k \in 1..count |-> [issue |-> number, id |-> k]]

\* one enrichIssueWithComments call
NoJob == [pc |-> "fetching", page |-> 1, allComments |-> << >>]

\* allComments.push(...comments)
PushAll_front(allComments, comments) == comments \o allComments

PushAll(allComments, comments) == allComments \o comments

\* the EnrichedIssue of an issue
EnrichedIssue(issue, comments) == [number |-> issue.id, comments |-> comments]

\* the array Promise.all fulfils with, for the calls settled in the given order
Fulfil_bySettlement(issues, jobs, settled) ==
  [i \in DOMAIN issues |-> EnrichedIssue(issues[settled[i]], jobs[settled[i]].allComments)]

Fulfil(issues, jobs, settled) ==
  [i \in DOMAIN issues |-> EnrichedIssue(issues[i], jobs[i].allComments)]

\* no run: the fetch phase of a run of POST /estimate-repo-issues; pageFailed
\* records that a page request of fetchAllOpenIssues was rejected
NoFetch == [pc |-> "idle", pageFailed |-> FALSE, ep |-> "", all |-> << >>, page |-> 1, requests |-> << >>,
            allIssues |-> << >>, returned |-> FALSE, fetched |-> << >>,
            threads |-> << >>, jobs |-> << >>, settled |-> << >>,
            enrichedIssues |-> << >>, inference |-> 0, outcome |-> ""]


(***************************************************************************)
(* convertEstimationsToCSV.  A text is the sequence of its pieces: the     *)
(* characters the code looks for (comma, double quote, line feed) one by   *)
(* one, and runs of other characters as one piece each.                    *)
(***************************************************************************)

Comma == ","

Quote == "\""

Newline == "\n"

\* a string value
Str(s) == [kind |-> "string", s |-> s]

\* the text Array.prototype.join puts for an element: '' for undefined
Joined(x) ==
  IF x.kind = "string" THEN x.s
  ELSE IF x.kind = "number" THEN <<ToString(x.v)>>
  ELSE IF x.kind = "NaN" THEN <<"NaN">>
  ELSE << >>

\* parts.join(sep)
RECURSIVE join(_, _)
join(parts, sep) ==
  IF parts = << >> THEN << >>
  ELSE IF Len(parts) = 1 THEN Head(parts)
  ELSE Head(parts) \o sep \o join(Tail(parts), sep)

\* field.includes(ch)
includes(field, ch) == \E k \in DOMAIN field : field[k] = ch

\* field.replace(/"/g, '""')
RECURSIVE replaceQuotes(_)
replaceQuotes(field) ==
  IF field = << >> THEN << >>
  ELSE (IF Head(field) = Quote THEN <<Quote, Quote>> ELSE <<Head(field)>>)
         \o replaceQuotes(Tail(field))

escapeCSVField_bare(field) ==
  IF includes(field, Comma) \/ includes(field, Quote) \/ includes(field, Newline)
     THEN <<Quote>> \o field \o <<Quote>>
     ELSE field

escapeCSVField(field) ==
  IF includes(field, Comma) \/ includes(field, Quote) \/ includes(field, Newline)
     THEN <<Quote>> \o replaceQuotes(field) \o <<Quote>>
     ELSE field

header ==
  <<"issue_number", Comma, "title", Comma, "complexity", Comma, "estimated_cost", Comma,
    "labels", Comma, "reasoning", Comma, "url">>

\* est.labels.join('; ')
LabelsJoined_byComma(labels) == join(labels, <<Comma>>)

LabelsJoined(labels) == join(labels, <<";", " ">>)

\* the elements of the array a row is joined from
Columns_costFirst(est) ==
  <<Joined(est.issueNumber), escapeCSVField(est.title.s), Joined(est.estimatedCost),
    Joined(est.complexity), escapeCSVField(LabelsJoined(est.labels)),
    escapeCSVField(est.reasoning.s), Joined(est.url)>>

Columns(est) ==
  <<Joined(est.issueNumber), escapeCSVField(est.title.s), Joined(est.complexity),
    Joined(est.estimatedCost), escapeCSVField(LabelsJoined(est.labels)),
    escapeCSVField(est.reasoning.s), Joined(est.url)>>

\* escapeCSVField of a value that is no string: field.includes is not there to call
Throws(est) == est.title.kind # "string" \/ est.reasoning.kind # "string"

convertEstimationsToCSV(estimations) ==
  IF \E k \in DOMAIN estimations : Throws(estimations[k])
     THEN [threw |-> TRUE, csvContent |-> << >>]
     ELSE [threw |-> FALSE,
           csvContent |-> join(<<header>> \o [k \in DOMAIN estimations |->
                                               join(Columns(estimations[k]), <<Comma>>)],
                               <<Newline>>)]

\* the result sets converted: up to MaxRows estimations
MaxRows == 2

\* the issues estimated: a title and the names of the labels
EstimatedIssues ==
  {[title |-> <<"fix">>, labels |-> << >>],
   [title |-> << >>, labels |-> <<<<"bug">>, <<"ui", Comma, "ux">>>>],
   [title |-> <<"a", Comma, "b">>, labels |-> <<<<"p", Quote, "1", Quote>>>>],
   [title |-> <<"say", " ", Quote, "hi", Quote, Comma>>,
    labels |-> <<<<"bug">>, <<"ui", Comma, "ux">>>>],
   [title |-> <<Quote, "l1", Newline, "l2">>, labels |-> <<<<"p", Quote, "1", Quote>>>>]}

\* what the reply of the model gave: all three keys, no complexity and no
\* cost, or no reasoning
Answers ==
  {[complexity |-> Str(<<"low">>), estimatedCost |-> Num(200), reasoning |-> Str(<<"easy">>)],
   [complexity |-> Undefined, estimatedCost |-> Undefined,
    reasoning |-> Str(<<"needs", Comma, " ", Quote, "care", Quote, Newline, "a lot">>)],
   [complexity |-> Str(<<"high">>), estimatedCost |-> Num(5000), reasoning |-> Undefined]}

IssueEstimation(issue, answer) ==
  [issueNumber |-> Num(10 + Len(issue.title)), title |-> Str(issue.title),
   complexity |-> answer.complexity, estimatedCost |-> answer.estimatedCost,
   reasoning |-> answer.reasoning, labels |-> issue.labels,
   url |-> Str(<<"https://github.com/o/r/issues/", ToString(10 + Len(issue.title))>>)]

Estimations == {IssueEstimation(issue, answer) : issue \in EstimatedIssues, answer \in Answers}

ResultSets == UNION {[1..n -> Estimations] : n \in 0..MaxRows}

NoSheet == [pc |-> "idle", estimations |-> << >>, threw |-> FALSE, csvContent |-> << >>]

(***************************************************************************)
(* The batched endpoint as its client sees it: one response per request,   *)
(* computed from the open issues, startIndex and batchSize.                *)
(***************************************************************************)
\* the most open issues of a repository walked in batches
MaxWalk == 7

\* batchSize = 15 when the body leaves it out
defaultBatchSize == 15

BatchSizes == {1, 2, 3, defaultBatchSize}

\* null; a field a response or a body does not have is Undefined
Null == [kind |-> "null", v |-> 0]

\* allIssues.slice(startIndex, startIndex + batchSize)
slice(allIssues, startIndex, size) ==
  SubSeq(allIssues, startIndex + 1, Min(startIndex + size, Len(allIssues)))

\* startIndex + batchSize > totalIssues
isComplete_strict(startIndex, size, totalIssues) == startIndex + size > totalIssues

\* const isComplete = startIndex + batchSize >= totalIssues
isComplete(startIndex, size, totalIssues) == startIndex + size >= totalIssues

\* the body of the 200 response of a request whose calls all succeed, and the
\* estimateIssue calls made for it
BatchResponse(allIssues, startIndex, size) ==
  LET issuesToProcess == slice(allIssues, startIndex, size)
      complete        == isComplete(startIndex, size, Len(allIssues))
  IN  IF Len(issuesToProcess) = 0
        THEN [totalIssues |-> Len(allIssues), startIndex |-> startIndex,
              processedCount |-> 0, estimations |-> << >>, isComplete |-> TRUE,
              nextStartIndex |-> Undefined, inference |-> 0]
        ELSE [totalIssues |-> Len(allIssues), startIndex |-> startIndex,
              processedCount |-> Len(issuesToProcess),
              estimations |-> [i \in DOMAIN issuesToProcess |->
                                 [issueNumber |-> issuesToProcess[i]]],
              isComplete |-> complete,
              nextStartIndex |-> IF complete THEN Null ELSE Num(startIndex + size),
              inference |-> Len(issuesToProcess)]

\* before the client of the batched endpoint has made a request; responses are
\* the bodies it got, got the estimations of them one after the other
NoPager == [pc |-> "idle", allIssues |-> << >>, batchSize |-> 0, first |-> 0, startIndex |-> 0,
            requests |-> 0, responses |-> << >>, got |-> << >>, inference |-> 0]

(***************************************************************************)
(* The estimation parameters a handler reads from the body of a request.   *)
(***************************************************************************)
TierFields == {"lowMin", "lowMax", "mediumMin", "mediumMax",
               "highMin", "highMax", "criticalMin", "criticalMax"}

Fields == {"minBudget", "maxBudget", "model"} \cup TierFields

\* values of a JSON body besides numbers and null: a text that is no numeral,
\* and what Number() makes of it
Text == [kind |-> "string", v |-> 0]

\* Number(v) for a value of the body
ToNumber(v) == IF v.kind = "number" THEN v
               ELSE IF v.kind = "null" THEN Num(0)
               ELSE NaN

\* v ?? d
Coalesce(v, d) == IF v \in {Undefined, Null} THEN d ELSE v

\* some per-tier field !== undefined
AllEight_some(body) == \E f \in TierFields : body[f] # Undefined

\* lowMin !== undefined && ... && criticalMax !== undefined
AllEight(body) == \A f \in TierFields : body[f] # Undefined

\* const estimationParams = {...}; if (all eight) estimationParams.complexityBudgets = {...}
estimationParams(body) ==
  [minBudget |-> Coalesce(body["minBudget"], Num(EXAMPLE_PARAMS.minBudget)),
   maxBudget |-> Coalesce(body["maxBudget"], Num(EXAMPLE_PARAMS.maxBudget)),
   model |-> Coalesce(body["model"], EXAMPLE_PARAMS.model),
   complexityBudgets |->
     IF AllEight(body)
       THEN [low      |-> [min |-> ToNumber(body["lowMin"]), max |-> ToNumber(body["lowMax"])],
             medium   |-> [min |-> ToNumber(body["mediumMin"]), max |-> ToNumber(body["mediumMax"])],
             high     |-> [min |-> ToNumber(body["highMin"]), max |-> ToNumber(body["highMax"])],
             critical |-> [min |-> ToNumber(body["criticalMin"]),
                           max |-> ToNumber(body["criticalMax"])]]
       ELSE Undefined]

\* the bodies: any of the per-tier fields supplied, all of them with a number,
\* with null or with a text; the two budgets and the model supplied or not
TierValues == {Num(250), Null, Text}

Bodies ==
  {[f \in Fields |->
      IF f \in TierFields THEN (IF f \in supplied THEN tier ELSE Undefined)
      ELSE IF f = "minBudget" THEN min
      ELSE IF f = "maxBudget" THEN max
      ELSE model] :
     supplied \in SUBSET TierFields, tier \in TierValues,
     min \in {Undefined, Null, Num(50)}, max \in {Undefined, Null, Num(500)},
     model \in {Undefined, Text}}

\* before a request body has been read
NoBody == [pc |-> "idle", body |-> << >>, estimationParams |-> << >>]


Init ==
  /\ clock = 0
  /\ store = << >>
  /\ response = NoResponse
  /\ recent = [ip \in IPs |-> << >>]
  /\ calls = [t \in Requests |-> Idle]
  /\ running = 0
  /\ shadow = [store |-> << >>, response |-> NoResponse, swept |-> {}]
  /\ http = [r \in Slots |-> NoRequest]
  /\ batch = NoRun
  /\ tracker = NoFetch
  /\ sheet = NoSheet
  /\ admitted = [c \in Clients |-> << >>]
  /\ pager = NoPager
  /\ request = NoBody

\* Date.now() moves on between two callbacks
TickTo(T) ==
  /\ \E t \in T : t > clock /\ clock' = t
  /\ recent' = [ip \in IPs |-> Within(recent[ip], clock')]
  /\ admitted' = [c \in Clients |-> Within(admitted[c], clock')]
  /\ UNCHANGED <<store, response, calls, running, shadow, http, batch, tracker, sheet, pager, request>>

Tick == TickTo(Times)

RunCheckRateLimit(ip) ==
  LET r == checkRateLimit(store, ip, clock)
      u == checkRateLimit(shadow.store, ip, clock)
  IN  /\ store' = r.store
      /\ shadow' = [shadow EXCEPT !.store = u.store, !.response = u.resp]
      /\ response' = r.resp
      /\ recent' = [k \in IPs |->
                      IF k = ip /\ r.resp.kind = "null" THEN Append(recent[k], clock)
                      ELSE recent[k]]
      /\ UNCHANGED <<clock, calls, running, batch, tracker, sheet, pager, request>>

\* a call from a handler that is not followed further (GET /healthcheck)
CheckRateLimit(ip) == RunCheckRateLimit(ip) /\ UNCHANGED <<http, admitted>>

\* a timer callback starts only when the event loop is free
Sweep ==
  /\ running = 0
  /\ store' = sweep(store, clock)
  /\ shadow' = [shadow EXCEPT !.swept = @ \cup (DOMAIN store \ DOMAIN store')]
  /\ UNCHANGED <<clock, response, recent, calls, running, http, batch, tracker, sheet, admitted, pager, request>>

Next ==
  \/ Tick
  \/ \E ip \in Busy : CheckRateLimit(ip)
  \/ Sweep

Spec == Init /\ [][Next]_vars

CallTick == TickTo(CallTimes)

\* several addresses, over a few instants on both sides of the end of the day
ClientTick == TickTo(ClientTimes)

NextClients ==
  \/ ClientTick
  \/ \E ip \in IPs : CheckRateLimit(ip)
  \/ Sweep

SpecClients == Init /\ [][NextClients]_vars

(***************************************************************************)
(* checkRateLimit statement by statement, for requests in flight at once.  *)
(* A callback holds the event loop until it returns or suspends at an      *)
(* await; the body of checkRateLimit contains none.                        *)
(***************************************************************************)

\* whether a call suspends (awaits) before the statement at pc
Suspends_beforeIncrement(pc) == pc = "incr"

Suspends(pc) == FALSE

InCall == {"init", "reset", "check", "incr"}

\* request t may run its next statement
CanRun(t) == running = t \/ (running = 0 /\ calls[t].pc \in InCall)

Goto(t, pc) ==
  /\ calls' = [calls EXCEPT ![t].pc = pc]
  /\ running' = IF Suspends(pc) THEN 0 ELSE t

Return(t, resp) ==
  /\ calls' = [calls EXCEPT ![t].pc = "done", ![t].res = resp, ![t].snap = << >>]
  /\ response' = resp
  /\ running' = 0

\* a request reaches the server; seen: the short-term window of its address then
\* and snap (set when its handler starts): the store its call starts from
Arrive(t, ip) ==
  /\ calls[t].pc = "idle"
  /\ calls' = [calls EXCEPT ![t] =
                 [Idle EXCEPT !.pc = "pending", !.ip = ip,
                              !.seen = IF ip \in DOMAIN store THEN store[ip].shortTerm
                                       ELSE Idle.seen]]
  /\ UNCHANGED <<clock, store, response, recent, running, shadow, http, batch, tracker, sheet, admitted, pager, request>>

\* its handler starts: ip = getClientIP(request); now = Date.now()
Begin(t) ==
  /\ calls[t].pc = "pending"
  /\ running = 0
  /\ calls' = [calls EXCEPT ![t].pc = "init", ![t].now = clock, ![t].snap = store]
  /\ running' = IF Suspends("init") THEN 0 ELSE t
  /\ UNCHANGED <<clock, store, response, recent, shadow, http, batch, tracker, sheet, admitted, pager, request>>

\* if (!store[ip]) store[ip] = {...}
InitEntry(t) ==
  LET c == calls[t]
  IN  /\ c.pc = "init" /\ CanRun(t)
      /\ store' = IF c.ip \in DOMAIN store THEN store ELSE Put(store, c.ip, NewEntry(c.now))
      /\ Goto(t, "reset")
      /\ UNCHANGED <<clock, response, recent, shadow, http, batch, tracker, sheet, admitted, pager, request>>

\* the two lazy resets, on the entry ipData refers to
LazyReset(t) ==
  LET c == calls[t]
  IN  /\ c.pc = "reset" /\ CanRun(t)
      /\ store' = IF c.ip \in DOMAIN store
                    THEN Put(store, c.ip, ResetShort(ResetDaily(store[c.ip], c.now), c.now))
                    ELSE store
      /\ Goto(t, "check")
      /\ UNCHANGED <<clock, response, recent, shadow, http, batch, tracker, sheet, admitted, pager, request>>

\* the two limit checks, each with its return
Check(t) ==
  LET c == calls[t]
  IN  /\ c.pc = "check" /\ CanRun(t)
      /\ c.ip \in DOMAIN store
      /\ IF DailyExceeded(store[c.ip])
            THEN Return(t, Deny(c.ip, "daily", store[c.ip].daily, c.now))
          ELSE IF ShortExceeded(store[c.ip])
            THEN Return(t, Deny(c.ip, "short", store[c.ip].shortTerm, c.now))
          ELSE Goto(t, "incr") /\ UNCHANGED response
      /\ UNCHANGED <<clock, store, recent, shadow, http, batch, tracker, sheet, admitted, pager, request>>

\* ipData.daily.count++; ipData.shortTerm.count++; return null
Incr(t) ==
  LET c == calls[t]
  IN  /\ c.pc = "incr" /\ CanRun(t)
      /\ store' = IF c.ip \in DOMAIN store
                    THEN Put(store, c.ip, Increment(store[c.ip]))
                    ELSE store
      /\ Return(t, Allow(c.ip))
      /\ recent' = [recent EXCEPT ![c.ip] = Append(@, c.now)]
      /\ UNCHANGED <<clock, shadow, http, batch, tracker, sheet, admitted, pager, request>>

\* the handler goes on after `await checkRateLimit(request)`
Collect(t) ==
  /\ calls[t].pc = "done"
  /\ calls' = [calls EXCEPT ![t] = Idle]
  /\ UNCHANGED <<clock, store, response, recent, running, shadow, http, batch, tracker, sheet, admitted, pager, request>>

NextCalls ==
  \/ CallTick
  \/ \E t \in Requests, ip \in Busy : Arrive(t, ip)
  \/ \E t \in Requests : Begin(t)
  \/ \E t \in Requests : InitEntry(t)
  \/ \E t \in Requests : LazyReset(t)
  \/ \E t \in Requests : Check(t)
  \/ \E t \in Requests : Incr(t)
  \/ \E t \in Requests : Collect(t)
  \/ Sweep

SpecCalls == Init /\ [][NextCalls]_vars

(***************************************************************************)
(* The route handlers of the repository estimation, as far as their        *)
(* admission and their calls of the issue tracker and of the estimator go: *)
(* POST /estimate-repo-issues (plain and stream = true) and the batched    *)
(* variant with startIndex / batchSize, and POST /estimate-issue.           *)
(***************************************************************************)
Endpoints == {"repo", "stream", "batched", "issue"}

\* the two handlers that count their requests in the one store
SharedEndpoints == {"batched", "health"}

Links == {"missing", "invalid", "ok"}

\* the largest number of open issues of a repository
MaxIssues == 2

\* checkRateLimit in the batched handler only
Limited_batchedOnly(ep) == ep = "batched"

\* whether the handler of endpoint ep starts with checkRateLimit
Limited(ep) == ep \in SharedEndpoints

\* the batched handler fetches the issues before the context when startIndex > 0,
\* POST /estimate-issue fetches its issue before the context
IssuesFirst(q) == q.ep = "issue" \/ (q.ep = "batched" /\ q.start # 0)

\* the issues the handler goes on with: allIssues, or its slice from startIndex
ToProcess(q) == IF q.ep = "batched" /\ q.start > q.n THEN 0
                ELSE IF q.ep = "batched" THEN q.n - q.start ELSE q.n

Reply(r, q, outcome) ==
  http' = [http EXCEPT ![r] = [q EXCEPT !.pc = "sent", !.outcome = outcome]]

\* what a thrown error becomes: a 500 response, or the stream's error event
Thrown(q) == IF q.ep = "stream" THEN "error" ELSE "500"

Receive(r, ep, client, link, start) ==
  /\ http[r].pc = "idle"
  /\ http' = [http EXCEPT ![r] =
                [NoRequest EXCEPT !.pc = IF Limited(ep) THEN "rate" ELSE "body",
                                  !.ep = ep, !.client = client,
                                  !.ip = getClientIP(Header(client)), !.link = link,
                                  !.start = IF ep = "batched" THEN start ELSE 0]]
  /\ UNCHANGED <<clock, store, response, recent, calls, running, shadow, batch, tracker, sheet, admitted, pager, request>>

\* const rateLimitResponse = await checkRateLimit(request); if (...) return it
RateLimit(r) ==
  LET q == http[r]
  IN  /\ q.pc = "rate"
      /\ RunCheckRateLimit(q.ip)
      /\ IF response'.status = 429
            THEN Reply(r, [q EXCEPT !.decision = "rejected"], "429")
            ELSE http' = [http EXCEPT ![r] = [q EXCEPT !.decision = "admitted", !.pc = "body"]]
      /\ admitted' = [admitted EXCEPT ![q.client] =
                        IF response'.status = 429 THEN @ ELSE Append(@, clock)]

\* GET /healthcheck: return NextResponse.json({ status: 'ok', timestamp })
Health(r) ==
  LET q == http[r]
  IN  /\ q.pc = "body"
      /\ q.ep = "health"
      /\ Reply(r, q, "200")
      /\ UNCHANGED <<clock, store, response, recent, calls, running, shadow, batch, tracker, sheet, admitted, pager, request>>

\* the checks of repoLink
Validate(r) ==
  LET q == http[r]
  IN  /\ q.pc = "body"
      /\ q.ep # "health"
      /\ IF q.link # "ok"
            THEN Reply(r, q, IF q.ep = "stream" THEN "error" ELSE "400")
            ELSE http' = [http EXCEPT ![r].pc = IF q.ep = "issue" THEN "issue"
                                                ELSE IF IssuesFirst(q) THEN "issues"
                                                ELSE "context"]
      /\ UNCHANGED <<clock, store, response, recent, calls, running, shadow, batch, tracker, sheet, admitted, pager, request>>

\* POST /estimate-issue: await octokit.rest.issues.get, which may give a pull request
FetchIssue(r, pr, ok) ==
  LET q == [http[r] EXCEPT !.github = @ + 1, !.n = IF ok /\ ~pr THEN 1 ELSE 0]
  IN  /\ http[r].pc = "issue"
      /\ IF ~ok THEN Reply(r, q, Thrown(q))
         ELSE IF pr THEN Reply(r, q, "400")
         ELSE http' = [http EXCEPT ![r] = [q EXCEPT !.pc = "context"]]
      /\ UNCHANGED <<clock, store, response, recent, calls, running, shadow, batch, tracker, sheet, admitted, pager, request>>

\* the HTTP status of an outcome: the stream's response has the default status
StatusOf(outcome) ==
  IF outcome = "400" THEN 400
  ELSE IF outcome = "429" THEN 429
  ELSE IF outcome = "500" THEN 500
  ELSE 200

\* await fetchRepoContext(owner, repo)
FetchRepoContext(r, ok) ==
  LET q == [http[r] EXCEPT !.github = @ + 1]
  IN  /\ http[r].pc = "context"
      /\ IF ok
            THEN http' = [http EXCEPT ![r] =
                            [q EXCEPT !.pc = IF IssuesFirst(q) THEN "slice" ELSE "issues"]]
            ELSE Reply(r, q, Thrown(q))
      /\ UNCHANGED <<clock, store, response, recent, calls, running, shadow, batch, tracker, sheet, admitted, pager, request>>

\* await fetchAllOpenIssues(owner, repo), which finds n open issues
FetchAllOpenIssues(r, n, ok) ==
  LET q == [http[r] EXCEPT !.github = @ + 1, !.n = IF ok THEN n ELSE 0]
  IN  /\ http[r].pc = "issues"
      /\ IF ok
            THEN http' = [http EXCEPT ![r] =
                            [q EXCEPT !.pc = IF IssuesFirst(q) THEN "context" ELSE "slice"]]
            ELSE Reply(r, q, Thrown(q))
      /\ UNCHANGED <<clock, store, response, recent, calls, running, shadow, batch, tracker, sheet, admitted, pager, request>>

\* the batched handler answers at once when its slice of the issues is empty
Slice(r) ==
  LET q == http[r]
  IN  /\ q.pc = "slice"
      /\ IF q.ep = "batched" /\ ToProcess(q) = 0
            THEN Reply(r, q, "200")
            ELSE http' = [http EXCEPT ![r].pc = "enrich"]
      /\ UNCHANGED <<clock, store, response, recent, calls, running, shadow, batch, tracker, sheet, admitted, pager, request>>

\* await Promise.all(issues.map(enrichIssueWithComments)): a fetch per issue
Enrich(r, ok) ==
  LET q == [http[r] EXCEPT !.github = @ + ToProcess(http[r])]
  IN  /\ http[r].pc = "enrich"
      /\ ok \/ ToProcess(q) > 0
      /\ IF ok
            THEN http' = [http EXCEPT ![r] = [q EXCEPT !.pc = "estimate"]]
            ELSE Reply(r, q, Thrown(q))
      /\ UNCHANGED <<clock, store, response, recent, calls, running, shadow, batch, tracker, sheet, admitted, pager, request>>

\* await estimateIssuesBatch(...): an estimateIssue call per issue, then the answer
EstimateBatch(r, ok) ==
  LET q == [http[r] EXCEPT !.inference = @ + ToProcess(http[r])]
  IN  /\ http[r].pc = "estimate"
      /\ ok \/ ToProcess(q) > 0
      /\ Reply(r, q, IF ~ok THEN Thrown(q)
                      ELSE IF q.ep = "stream" THEN "complete" ELSE "200")
      /\ UNCHANGED <<clock, store, response, recent, calls, running, shadow, batch, tracker, sheet, admitted, pager, request>>

\* the response has gone out
Finish(r) ==
  /\ http[r].pc = "sent"
  /\ http' = [http EXCEPT ![r] = NoRequest]
  /\ UNCHANGED <<clock, store, response, recent, calls, running, shadow, batch, tracker, sheet, admitted, pager, request>>

NextRoutes ==
  \/ CallTick
  \/ \E r \in Slots, ep \in Endpoints, c \in Proxied, link \in Links, start \in 0..1 :
       Receive(r, ep, c, link, start)
  \/ \E r \in Slots : RateLimit(r)
  \/ \E r \in Slots : Validate(r)
  \/ \E r \in Slots, pr \in BOOLEAN, ok \in BOOLEAN : FetchIssue(r, pr, ok)
  \/ \E r \in Slots, ok \in BOOLEAN : FetchRepoContext(r, ok)
  \/ \E r \in Slots, n \in 0..MaxIssues, ok \in BOOLEAN : FetchAllOpenIssues(r, n, ok)
  \/ \E r \in Slots : Slice(r)
  \/ \E r \in Slots, ok \in BOOLEAN : Enrich(r, ok)
  \/ \E r \in Slots, ok \in BOOLEAN : EstimateBatch(r, ok)
  \/ \E r \in Slots : Finish(r)
  \/ Sweep

SpecRoutes == Init /\ [][NextRoutes]_vars

(***************************************************************************)
(* One streaming run of POST /estimate-repo-issues, callback by callback:  *)
(* the steps before the estimation, estimateIssuesBatch with its groups of *)
(* concurrent estimateIssue calls, the summary and the events it enqueues. *)
(***************************************************************************)
\* the per-tier ranges of a request that supplies all eight of them
SuppliedBudgets == <<[min |-> 100, max |-> 300], [min |-> 300, max |-> 600],
                     [min |-> 600, max |-> 900], [min |-> 900, max |-> 1000]>>

\* the values generateSystemPrompt puts into the prompt
generateSystemPrompt(params) == <<params.minBudget, params.maxBudget>>

\* sendEvent: controller.enqueue throws once the stream is closed or cancelled
Emit(b, e) ==
  IF b.threw THEN b
  ELSE IF b.cancelled \/ b.closed THEN [b EXCEPT !.threw = TRUE]
  ELSE [b EXCEPT !.events = Append(@, e)]

\* close: controller.close throws once the stream is closed or cancelled
Close(b) ==
  IF b.threw THEN b
  ELSE IF b.cancelled \/ b.closed THEN [b EXCEPT !.threw = TRUE]
  ELSE [b EXCEPT !.closed = TRUE]

\* the catch block of the run; number is the issue the error message names
Catch_silent(b, number) == [b EXCEPT !.pc = "done", !.threw = FALSE, !.error = number]

Catch_cancels(b, number) ==
  LET a == [b EXCEPT !.threw = FALSE, !.error = number,
                     !.call = [k \in DOMAIN @ |->
                                 IF @[k].st = "inflight" THEN [@[k] EXCEPT !.st = "cancelled"]
                                 ELSE @[k]]]
      c == Close(Emit(a, Event("error", "thrown")))
  IN  [c EXCEPT !.pc = "done", !.unhandled = c.threw, !.threw = FALSE]

Catch(b, number) ==
  LET c == Close(Emit([b EXCEPT !.threw = FALSE, !.error = number], Event("error", "thrown")))
  IN  [c EXCEPT !.pc = "done", !.unhandled = c.threw, !.threw = FALSE]

\* the end of a callback inside the try block
Try(b) == IF b.threw THEN Catch(b, 0) ELSE b

\* the indices (from 1) of issues.slice(i, i + batchSize)
Group_six(b) == (b.i + 1)..Min(b.i + batchSize + 1, Len(b.issues))

Group_rest(b) == (b.i + 1)..Len(b.issues)

Group(b) == (b.i + 1)..Min(b.i + batchSize, Len(b.issues))

InFlight(b) == {j \in DOMAIN b.call : b.call[j].st = "inflight"}

\* the run starts: the checks of repoLink and the estimation parameters
Open(link, tiers) ==
  LET b0 == Emit(NoRun, Event("log", "PARSING REPOSITORY URL"))
      b1 == [b0 EXCEPT !.tiers = tiers,
                       !.complexityBudgets = IF tiers THEN SuppliedBudgets ELSE << >>,
                       !.prompt = generateSystemPrompt(EXAMPLE_PARAMS)]
  IN  /\ batch.pc = "idle"
      /\ batch' =
           IF link = "missing"
              THEN [Close(Emit(b0, Event("error", "Repository link is required")))
                      EXCEPT !.pc = "done"]
           ELSE IF link = "invalid"
              THEN [Close(Emit(b1, Event("error", "Invalid GitHub repository URL")))
                      EXCEPT !.pc = "done"]
           ELSE [Emit(b1, Event("log", "FETCHING REPOSITORY CONTEXT")) EXCEPT !.pc = "context"]
      /\ UNCHANGED <<clock, store, response, recent, calls, running, shadow, http, tracker, sheet, admitted, pager, request>>

\* await fetchRepoContext(owner, repo)
Context(ok) ==
  /\ batch.pc = "context"
  /\ batch' = IF ok THEN Try([Emit(batch, Event("log", "LOADING OPEN ISSUES"))
                                EXCEPT !.pc = "issues"])
              ELSE Catch(batch, 0)
  /\ UNCHANGED <<clock, store, response, recent, calls, running, shadow, http, tracker, sheet, admitted, pager, request>>

\* await fetchAllOpenIssues(owner, repo), which finds n open issues
Issues(n, ok) ==
  LET found == [Event("log", "FOUND") EXCEPT !.n = n]
  IN  /\ batch.pc = "issues"
      /\ batch' = IF ok THEN Try([Emit(Emit(batch, found), Event("log", "ENRICHING ISSUE DATA"))
                                    EXCEPT !.pc = "enrich", !.issues = IssueList(n),
                                           !.call = [k \in 1..n |-> [st |-> "new", res |-> Failed(0)]]])
                  ELSE Catch(batch, 0)
      /\ UNCHANGED <<clock, store, response, recent, calls, running, shadow, http, tracker, sheet, admitted, pager, request>>

\* await Promise.all(allIssues.map(enrichIssueWithComments)), the formatting,
\* and the call of estimateIssuesBatch up to its loop
Enriched(ok) ==
  /\ batch.pc = "enrich"
  /\ ok \/ Len(batch.issues) > 0
  /\ batch' = IF ok THEN Try([Emit(Emit(batch, Event("log", "FORMATTING DATA FOR AI")),
                                   Event("log", "STARTING AI ESTIMATION"))
                                EXCEPT !.pc = "loop", !.i = 0, !.estimations = << >>])
              ELSE Catch(batch, 0)
  /\ UNCHANGED <<clock, store, response, recent, calls, running, shadow, http, tracker, sheet, admitted, pager, request>>

\* for (let i = 0; i < issues.length; i += batchSize): the next group's calls
\* start, or estimateIssuesBatch returns
Loop ==
  /\ batch.pc = "loop"
  /\ batch' = IF batch.i < Len(batch.issues)
                 THEN [batch EXCEPT !.pc = "await",
                                    !.call = [k \in DOMAIN @ |->
                                                IF k \in Group(batch)
                                                   THEN [@[k] EXCEPT !.st = "inflight"]
                                                   ELSE @[k]]]
                 ELSE [batch EXCEPT !.pc = "summary", !.returned = TRUE]
  /\ UNCHANGED <<clock, store, response, recent, calls, running, shadow, http, tracker, sheet, admitted, pager, request>>

\* what Promise.all gives once every call of the group has returned: the
\* results in the order of the calls
Gather_byIssueNumber(call, group) ==
  [k \in 1..Cardinality(group) |->
     call[CHOOSE j \in group :
            Cardinality({m \in group : call[m].res.issueNumber < call[j].res.issueNumber}) = k - 1].res]

Gather(call, group) ==
  [k \in 1..Cardinality(group) |->
     call[CHOOSE j \in group : Cardinality({m \in group : m < j}) = k - 1].res]

\* the estimateIssue call for issue j goes on after its completion call and
\* returns or throws; Promise.all rejects with the first failure of the group
\* and resolves when the last call of the group has returned
Settles(j, reply, disk) ==
  LET out == estimateIssue(batch.issues[j], reply, TRUE, disk)
      b   == [batch EXCEPT !.call[j] = [st |-> IF out.ok THEN "ok" ELSE "failed", res |-> out],
                           !.overtaken = @ \/ \E k \in InFlight(batch) : k < j,
                           !.files = IF out.ok THEN @ \cup {out.issueNumber} ELSE @,
                           !.late = @ \/ (out.ok /\ batch.pc = "done")]
  IN  /\ j \in InFlight(batch)
      /\ batch' =
           IF batch.pc # "await" THEN b
           ELSE IF ~out.ok THEN Catch(b, out.issueNumber)
           ELSE IF \A k \in Group(b) : b.call[k].st = "ok"
              THEN [b EXCEPT !.pc = "join", !.batchEstimations = Gather(b.call, Group(b))]
           ELSE b
      /\ UNCHANGED <<clock, store, response, recent, calls, running, shadow, http, tracker, sheet, admitted, pager, request>>

\* Math.min(i + batchSize, issues.length)
currentCount_start(b) == b.i

currentCount(b) == Min(b.i + batchSize, Len(b.issues))

\* onProgress of the streaming run: the BATCH log event
onProgress(b, current, total) ==
  IF current % 5 = 0 \/ current = total THEN Emit(b, BatchEvent(current, total)) ELSE b

\* estimations.push(...batchEstimations)
push_replaces(estimations, batchEstimations) == batchEstimations

push(estimations, batchEstimations) == estimations \o batchEstimations

\* estimations.push(...batchEstimations) and onProgress(currentCount, issues.length)
Join ==
  LET b == [batch EXCEPT !.estimations = push(@, batch.batchEstimations),
                         !.batchEstimations = << >>,
                         !.progress = Append(@, <<currentCount(batch), Len(batch.issues)>>),
                         !.i = @ + batchSize,
                         !.pc = "loop"]
  IN  /\ batch.pc = "join"
      /\ batch' = Try(onProgress(b, currentCount(batch), Len(batch.issues)))
      /\ UNCHANGED <<clock, store, response, recent, calls, running, shadow, http, tracker, sheet, admitted, pager, request>>

\* the summary, the CSV, its file (writeEstimationsToCSV throws when the disk
\* fails) and the complete event
summarize(ests) ==
  [made |-> TRUE, totalCost |-> totalCost(ests),
   avgCost |-> avgCost(totalCost(ests), Len(ests)),
   complexityCounts |-> complexityCounts(ests)]

Complete(disk) ==
  LET b0 == [batch EXCEPT !.summary = summarize(batch.estimations)]
      b1 == Emit(Emit(Emit(Emit(b0, Event("log", "ESTIMATION COMPLETE")),
                                     Event("log", "TOTAL COST")),
                                     Event("log", "AVG COST")),
                                     Event("log", "GENERATING CSV"))
      b2 == [b1 EXCEPT !.csv = ~b1.threw]
  IN  /\ batch.pc = "summary"
      /\ batch' = IF ~disk /\ ~b2.threw
                     THEN Catch(b2, 0)
                     ELSE Try([Close(Emit(b2, Event("complete", "READY FOR DOWNLOAD")))
                                 EXCEPT !.pc = "done"])
      /\ UNCHANGED <<clock, store, response, recent, calls, running, shadow, http, tracker, sheet, admitted, pager, request>>

\* the consumer of the stream goes away
Cancel ==
  /\ batch.pc \notin {"idle", "done"}
  /\ ~batch.cancelled /\ ~batch.closed
  /\ batch' = [batch EXCEPT !.cancelled = TRUE]
  /\ UNCHANGED <<clock, store, response, recent, calls, running, shadow, http, tracker, sheet, admitted, pager, request>>

NextBatch ==
  \/ \E link \in Links, tiers \in BOOLEAN : Open(link, tiers)
  \/ \E ok \in BOOLEAN : Context(ok)
  \/ \E n \in 0..MaxBatchIssues, ok \in BOOLEAN : Issues(n, ok)
  \/ \E ok \in BOOLEAN : Enriched(ok)
  \/ Loop
  \/ \E j \in 1..MaxBatchIssues, reply \in Replies, disk \in BOOLEAN : Settles(j, reply, disk)
  \/ Join
  \/ \E disk \in BOOLEAN : Complete(disk)
  \/ Cancel

SpecBatch == Init /\ [][NextBatch]_vars

\* the replies of the runs whose progress is followed to their end
LiveReplies == {Content("reject"), Json("low", Num(200))}

\* the callbacks of a run: an external call that returns or fails, and what
\* the event loop runs next
Advance ==
  \/ \E ok \in BOOLEAN : Context(ok)
  \/ \E n \in {0, MaxBatchIssues}, ok \in BOOLEAN : Issues(n, ok)
  \/ \E ok \in BOOLEAN : Enriched(ok)
  \/ Loop
  \/ \E j \in 1..MaxBatchIssues, reply \in LiveReplies, disk \in BOOLEAN :
       Settles(j, reply, disk)
  \/ Join
  \/ \E disk \in BOOLEAN : Complete(disk)

NextLive ==
  \/ \E link \in Links, tiers \in BOOLEAN : Open(link, tiers)
  \/ Advance
  \/ Cancel

\* the run when every external call returns or fails in the end and the
\* event loop runs every callback that is ready
SpecLive == Init /\ [][NextLive]_vars /\ WF_vars(Advance)

\* the same run on a long list whose calls all get the same reply
NextLong ==
  \/ \E link \in Links, tiers \in BOOLEAN : Open(link, tiers)
  \/ \E ok \in BOOLEAN : Context(ok)
  \/ \E n \in {LongList - 3, LongList}, ok \in BOOLEAN : Issues(n, ok)
  \/ \E ok \in BOOLEAN : Enriched(ok)
  \/ Loop
  \/ \E j \in 1..LongList, reply \in SameReplies : Settles(j, reply, TRUE)
  \/ Join
  \/ \E disk \in BOOLEAN : Complete(disk)
  \/ Cancel

SpecLong == Init /\ [][NextLong]_vars

(***************************************************************************)
(* Properties of the rate limiter.                                         *)
(***************************************************************************)

Has(ip) == ip \in DOMAIN store

\* the last response is a denial of ip's window w, and ip's entry is still there
DeniedBy(ip, kind) == response.ip = ip /\ response.kind = kind /\ Has(ip)

\* C1: in every reachable state every address has daily.count <= 100 and
\* shortTerm.count <= 10, and a call is rejected by a window exactly when that
\* window's count stands at its ceiling: the rejection comes before any increment.
C1_CountsWithinCeilings ==
  \A ip \in IPs :
    /\ Has(ip) =>
         /\ store[ip].daily.count \in 0..100
         /\ store[ip].shortTerm.count \in 0..10
    /\ DeniedBy(ip, "daily") => store[ip].daily.count = 100
    /\ DeniedBy(ip, "short") => store[ip].shortTerm.count = 10

C1_Witness ==
  /\ DeniedBy("a", "daily")
  /\ store["a"].daily.count = 100
  /\ store["a"].shortTerm.count < 10

\* C2: a call that finds its address with 10 admitted calls in a short window
\* that has not expired, and the daily count below its ceiling, is denied with
\* the short-term kind (429) and leaves the short window as it is, so that every
\* further call of the window is denied the same way.
C2_EleventhDenied ==
  [][\A ip \in IPs :
       (/\ Has(ip)
        /\ store[ip].shortTerm.count = 10
        /\ clock <= store[ip].shortTerm.resetTime
        /\ store[ip].daily.count < 100
        /\ CheckRateLimit(ip))
       => /\ response'.kind = "short"
          /\ response'.status = 429
          /\ response'.ip = ip
          /\ store'[ip].shortTerm = store[ip].shortTerm]_vars

C2_Witness ==
  /\ DeniedBy("a", "short")
  /\ store["a"].shortTerm.count = 10
  /\ store["a"].daily.count < 100
  /\ clock = store["a"].shortTerm.resetTime

\* C3 as stated: a denied call leaves both counts of its address unchanged.
C3_DeniedLeavesCounts ==
  [][\A ip \in IPs :
       (Has(ip) /\ CheckRateLimit(ip) /\ response'.status = 429)
       => /\ store'[ip].daily.count = store[ip].daily.count
          /\ store'[ip].shortTerm.count = store[ip].shortTerm.count]_vars

\* C3 (amended): a denied call never makes a count grow: each window's count is
\* unchanged, except that a window whose resetTime had elapsed is reset to 0.
C3_DeniedNeverIncrements ==
  [][\A ip \in IPs :
       (Has(ip) /\ CheckRateLimit(ip) /\ response'.status = 429)
       => /\ store'[ip].daily.count =
               IF store[ip].daily.resetTime < clock THEN 0 ELSE store[ip].daily.count
          /\ store'[ip].shortTerm.count =
               IF store[ip].shortTerm.resetTime < clock THEN 0
               ELSE store[ip].shortTerm.count]_vars

\* a daily denial that found the short window expired and reset it
C3_Witness ==
  /\ DeniedBy("a", "daily")
  /\ store["a"].daily.count = 100
  /\ store["a"].shortTerm.count = 0
  /\ store["a"].shortTerm.resetTime = clock + SHORT_HORIZON

\* window w of entry e has expired at now / stands at its ceiling and has not expired
DailyElapsed(e, now) == e.daily.resetTime < now
ShortElapsed(e, now) == e.shortTerm.resetTime < now
DailyBlocks(e, now) == e.daily.count >= 100 /\ ~DailyElapsed(e, now)
ShortBlocks(e, now) == e.shortTerm.count >= 10 /\ ~ShortElapsed(e, now)

\* C4 as stated: once a window's resetTime has elapsed, the next call of the
\* address is admitted and leaves that window's count at 1.
C4_ElapsedWindowAdmits ==
  [][\A ip \in IPs :
       (Has(ip) /\ CheckRateLimit(ip))
       => /\ DailyElapsed(store[ip], clock)
               => response'.kind = "null" /\ store'[ip].daily.count = 1
          /\ ShortElapsed(store[ip], clock)
               => response'.kind = "null" /\ store'[ip].shortTerm.count = 1]_vars

\* C4 (amended): once a window's resetTime has elapsed, the next call of the
\* address is admitted and leaves that window with count 1 and resetTime
\* now + horizon, unless the other window stands at its ceiling and has not
\* expired: then the call is denied by the other window and the elapsed window
\* is left reset, with count 0.
C4_ElapsedWindowAdmitsUnlessOtherBlocks ==
  [][\A ip \in IPs :
       (Has(ip) /\ CheckRateLimit(ip))
       => /\ (DailyElapsed(store[ip], clock) /\ ~ShortBlocks(store[ip], clock))
               => /\ response'.kind = "null"
                  /\ store'[ip].daily = [count |-> 1, resetTime |-> clock + 86400000]
          /\ (DailyElapsed(store[ip], clock) /\ ShortBlocks(store[ip], clock))
               => /\ response'.kind = "short"
                  /\ store'[ip].daily = [count |-> 0, resetTime |-> clock + 86400000]
          /\ (ShortElapsed(store[ip], clock) /\ ~DailyBlocks(store[ip], clock))
               => /\ response'.kind = "null"
                  /\ store'[ip].shortTerm = [count |-> 1, resetTime |-> clock + 300000]
          /\ (ShortElapsed(store[ip], clock) /\ DailyBlocks(store[ip], clock))
               => /\ response'.kind = "daily"
                  /\ store'[ip].shortTerm = [count |-> 0, resetTime |-> clock + 300000]
     ]_vars

\* the first short window (0 .. 300000) took 10 calls; the call at 301000 was
\* admitted and opened a new window with count 1
C4_Witness ==
  /\ clock = 301000
  /\ Has("a")
  /\ response = Allow("a")
  /\ store["a"].daily = [count |-> 11, resetTime |-> 86400000]
  /\ store["a"].shortTerm = [count |-> 1, resetTime |-> 601000]

\* C5: no address has more than 10 calls admitted within any 5 minutes (here:
\* within the 5 minutes that end now).
C5_AtMostTenPerFiveMinutes ==
  \A ip \in IPs : Len(Within(recent[ip], clock)) <= 10

\* C6: the daily window is evaluated first: a call that finds the daily count at
\* its ceiling (window not expired) is denied with kind daily, the Reset header
\* and retryAfter taken from the daily window, whatever the short-term count;
\* a short-term denial leaves a daily count below 100.
C6_DailyBeforeShort ==
  [][\A ip \in IPs :
       (Has(ip) /\ CheckRateLimit(ip))
       => /\ DailyBlocks(store[ip], clock)
               => /\ response'.kind = "daily"
                  /\ response'.status = 429
                  /\ response'.reset = store[ip].daily.resetTime
                  /\ response'.retryAfter * 1000 >= store[ip].daily.resetTime - clock
                  /\ (response'.retryAfter - 1) * 1000 < store[ip].daily.resetTime - clock
          /\ response'.kind = "short" => store'[ip].daily.count < 100]_vars

\* a daily denial while the short-term window stands at its ceiling too
C6_Witness ==
  /\ DeniedBy("a", "daily")
  /\ store["a"].shortTerm.count = 10
  /\ clock <= store["a"].shortTerm.resetTime

\* C7: a denial reports retryAfter = ceil((resetTime - now) / 1000) of the window
\* that denied; with 10 calls admitted at t = 0 a further call at t = 0 is denied
\* with retryAfter 300, and a call at t = 301 s is admitted and opens a new short
\* window (count 1, resetTime 301 s + 5 min).
C7_RetryAfter ==
  [][\A ip \in IPs :
       CheckRateLimit(ip)
       => /\ response'.status = 429
               => LET w == IF response'.kind = "daily" THEN store'[ip].daily
                           ELSE store'[ip].shortTerm
                      d == w.resetTime - clock
                  IN  /\ response'.reset = w.resetTime
                      /\ response'.retryAfter * 1000 >= d
                      /\ (response'.retryAfter - 1) * 1000 < d
          /\ (/\ Has(ip)
              /\ store[ip].daily = [count |-> 10, resetTime |-> 86400000]
              /\ store[ip].shortTerm = [count |-> 10, resetTime |-> 300000])
               => /\ clock = 0
                    => /\ response'.kind = "short"
                       /\ response'.retryAfter = 300
                  /\ clock = 301000
                    => /\ response'.kind = "null"
                       /\ store'[ip].shortTerm = [count |-> 1, resetTime |-> 601000]
     ]_vars

\* the 11th call at t = 0, denied with retryAfter 300
C7_Witness ==
  /\ clock = 0
  /\ response = [ip |-> "a", kind |-> "short", status |-> 429,
                 retryAfter |-> 300, reset |-> 300000, at |-> 0]

\* the requests whose checkRateLimit call has begun and not returned
Executing == {t \in Requests : calls[t].pc \in InCall}

\* requests t and u both arrived when their address had 9 calls in the short-term
\* window that is still the current one, and both calls have returned
BothFromNine(t, u) ==
  /\ t # u
  /\ calls[t].pc = "done" /\ calls[u].pc = "done"
  /\ calls[t].ip = calls[u].ip
  /\ Has(calls[t].ip)
  /\ calls[t].seen = calls[u].seen
  /\ calls[t].seen = [count |-> 9, resetTime |-> store[calls[t].ip].shortTerm.resetTime]

C8_NoInterleaving ==
  /\ Cardinality(Executing) <= 1
  /\ Executing = IF running = 0 THEN {} ELSE {running}
  /\ \A ip \in IPs : Has(ip) =>
       store[ip].daily.count <= 100 /\ store[ip].shortTerm.count <= 10
  /\ \A t, u \in Requests :
       BothFromNine(t, u) => ~(calls[t].res.kind = "null" /\ calls[u].res.kind = "null")

C8_AsIfAtomic ==
  \A t \in Requests :
    (calls[t].pc \in InCall /\ calls'[t].pc = "done")
    => LET r == checkRateLimit(calls[t].snap, calls[t].ip, calls[t].now)
       IN  /\ store' = r.store
           /\ calls'[t].res = r.resp
           /\ response' = r.resp

\* C8: calls in flight at once run one after another: at most one call is
\* between its first and its last statement, the sweep does not run inside one,
\* each call leaves the store and returns the response that the whole function
\* yields on the store it started from (no increment is lost), and of two calls
\* that arrive with the count at 9 in the same window at most one is admitted.
C8_CallsSerialized == []C8_NoInterleaving /\ [][C8_AsIfAtomic]_vars

\* two requests arrived with the short-term count at 9: one admitted, one denied
C8_Witness ==
  /\ BothFromNine(1, 2)
  /\ calls[1].res.kind = "null"
  /\ calls[2].res.kind = "short"
  /\ store[calls[1].ip].shortTerm.count = 10

\* an entry leaves the store only with both of its windows expired
C9_Deletions ==
  \A ip \in IPs :
    (Has(ip) /\ ip \notin DOMAIN store')
    => store[ip].daily.resetTime < clock /\ store[ip].shortTerm.resetTime < clock

\* the store and the last response agree with those of the store never swept
C9_SameAsUnswept ==
  /\ response = shadow.response
  /\ DOMAIN store \subseteq DOMAIN shadow.store
  /\ \A ip \in DOMAIN shadow.store :
       IF Has(ip) THEN store[ip] = shadow.store[ip]
       ELSE /\ shadow.store[ip].daily.resetTime < clock
            /\ shadow.store[ip].shortTerm.resetTime < clock

\* C9: the sweep deletes an entry only when both of its windows have
\* resetTime < now, and every call returns what the same call returns on a store
\* that is never swept: the same outcome, denial kind, retryAfter and reset time.
C9_SweepUnobservable == []C9_SameAsUnswept /\ [][C9_Deletions]_vars

\* a denial of an address whose entry had been deleted by a sweep that left the
\* entry of another address in the store
C9_Witness ==
  /\ "a" \in shadow.swept
  /\ DeniedBy("a", "short")
  /\ response = shadow.response
  /\ Has("b") /\ "b" \notin shadow.swept

\* C10: on every repository-estimation request the rate limiter decides before
\* any issue-tracker or estimator call: a request that has made such a call was
\* admitted by checkRateLimit, and a rejected request has made none.
C10_AdmissionFirst ==
  \A r \in Slots :
    /\ (http[r].github > 0 \/ http[r].inference > 0) => http[r].decision = "admitted"
    /\ http[r].decision = "rejected" => http[r].github = 0 /\ http[r].inference = 0

(***************************************************************************)
(* Properties of estimateIssuesBatch and of the streaming run.             *)
(***************************************************************************)
Started(b) == {j \in DOMAIN b.call : b.call[j].st # "new"}

FailedCalls(b) == {j \in DOMAIN b.call : b.call[j].st = "failed"}

TerminalEvents(b) == {k \in DOMAIN b.events : b.events[k].type \in Terminal}

IsBatchEvent(e) == e.message = "BATCH"

\* C11: the list a successful estimateIssuesBatch run returns has one result
\* per input issue, results[i] being the result for issues[i], whatever the
\* order in which the calls of a group returned and whether or not the list
\* length is a multiple of the group size.
C11_ResultsInInputOrder ==
  batch.returned =>
    /\ Len(batch.estimations) = Len(batch.issues)
    /\ \A k \in 1..Len(batch.issues) :
         /\ batch.estimations[k].issueNumber = batch.issues[k]
         /\ batch.estimations[k].issueNumber = 100 + Len(batch.issues) - k
         /\ batch.estimations[k] = batch.call[k].res

C11_Witness ==
  /\ batch.returned
  /\ batch.overtaken
  /\ Len(batch.issues) = 6
  /\ Len(batch.estimations) = 6

\* the BATCH log events enqueued so far, in their order
BatchEvents(b) == SelectSeq(b.events, IsBatchEvent)

\* C12: for a list of n issues onProgress is called with (min(5k, n), n) at
\* its k-th call; a successful run has called it ceil(n / 5) times (with
\* 5, 10, 15, 20, 23 for n = 23), and the stream carries one
\* 'BATCH k/K | ISSUES c/n' log event per call, in the order of the calls.
C12_ProgressPerGroup ==
  LET n == Len(batch.issues)
      K == (n + 4) \div 5
  IN  /\ \A k \in 1..Len(batch.progress) :
           batch.progress[k] = <<IF 5 * k < n THEN 5 * k ELSE n, n>>
      /\ Len(batch.progress) <= K
      /\ batch.returned =>
           /\ Len(batch.progress) = K
           /\ BatchEvents(batch) =
                [k \in 1..K |-> [type |-> "log", message |-> "BATCH", k |-> k, K |-> K,
                                 c |-> batch.progress[k][1], n |-> n]]
      /\ (batch.returned /\ n = 23) =>
           batch.progress = <<<<5, 23>>, <<10, 23>>, <<15, 23>>, <<20, 23>>, <<23, 23>>>>

C12_Witness ==
  /\ batch.returned
  /\ Len(batch.issues) = LongList
  /\ Len(batch.progress) = CeilDiv(LongList, 5)
  /\ Len(BatchEvents(batch)) = CeilDiv(LongList, 5)
  /\ batch.progress[Len(batch.progress)] = <<LongList, LongList>>

\* C13: at every moment of a run at most 5 estimateIssue calls are in
\* flight, also after a call of the current group has failed and the run is
\* over.
C13_AtMostFiveInFlight ==
  /\ Cardinality(InFlight(batch)) <= 5
  /\ FailedCalls(batch) # {} => Cardinality(InFlight(batch)) <= 4

C13_Witness ==
  /\ Len(batch.issues) = 6
  /\ Cardinality(FailedCalls(batch)) = 1
  /\ Cardinality(InFlight(batch)) = 4
  /\ batch.pc = "done"

\* the group (from 1) of the issue at index j
GroupOf(j) == (j + 4) \div 5

\* C14: the groups are processed in their order: when a call for an issue of
\* a group has been started, every call of the groups before it has returned
\* and onProgress has been called for each of these groups.
C14_GroupsInOrder ==
  \A j \in Started(batch) :
    /\ \A k \in 1..Len(batch.issues) : GroupOf(k) < GroupOf(j) => batch.call[k].st = "ok"
    /\ Len(batch.progress) >= GroupOf(j) - 1
    /\ Len(batch.estimations) >= 5 * (GroupOf(j) - 1)

C14_Witness ==
  /\ Len(batch.call) >= 6
  /\ batch.call[6].st = "inflight"
  /\ Len(batch.progress) = 1
  /\ \A k \in 1..5 : batch.call[k].st = "ok"

\* C15: once an estimateIssue call has failed the run has failed with the
\* error of a failed call, which names its issue: estimateIssuesBatch has
\* returned no list, no summary has been computed, the CSV has not been
\* produced and no 'complete' event has been enqueued.
C15_FailureFailsRun ==
  FailedCalls(batch) # {} =>
    /\ batch.pc = "done"
    /\ ~batch.returned
    /\ ~batch.summary.made
    /\ ~batch.csv
    /\ \A k \in DOMAIN batch.events : batch.events[k].type # "complete"
    /\ batch.error \in {100 + Len(batch.issues) - j : j \in FailedCalls(batch)}
    /\ Cardinality(FailedCalls(batch)) = 1 =>
         \E j \in FailedCalls(batch) : batch.error = batch.issues[j]

C15_Witness ==
  /\ Len(batch.issues) = 6
  /\ Len(batch.estimations) = 5
  /\ FailedCalls(batch) = {6}
  /\ batch.error = 100
  /\ ~batch.cancelled
  /\ batch.events[Len(batch.events)].type = "error"

Returned(b) == {j \in DOMAIN b.call : b.call[j].st = "ok"}

\* C16: estimateIssue returns a result only for a reply that parses and
\* carries one of the tiers low, medium, high, critical and a number as its
\* cost; for every other reply it throws an error that names the issue.
C16_OnlyRecognisedTiers ==
  /\ \A j \in Returned(batch) :
       /\ batch.call[j].res.complexity \in {"low", "medium", "high", "critical"}
       /\ batch.call[j].res.estimatedCost.kind = "number"
  /\ \A j \in FailedCalls(batch) : batch.call[j].res.issueNumber = batch.issues[j]

\* the sub-ranges of [lo, hi] with their boundaries at 0%, 25%, 60%, 85% and 100%
DerivedRanges(lo, hi) ==
  LET at(p) == lo + ((hi - lo) * p) \div 100
  IN  <<[min |-> at(0), max |-> at(25)], [min |-> at(25), max |-> at(60)],
        [min |-> at(60), max |-> at(85)], [min |-> at(85), max |-> at(100)]>>

TierIndex(t) == IF t = "low" THEN 1 ELSE IF t = "medium" THEN 2 ELSE IF t = "high" THEN 3 ELSE 4

\* the sub-range of a tier in a run: the one supplied, or else the derived one
TierRange(b, t) ==
  IF b.tiers THEN SuppliedBudgets[TierIndex(t)]
  ELSE DerivedRanges(b.prompt[1], b.prompt[2])[TierIndex(t)]

\* C17: the estimatedCost of every result that estimateIssue returns for one
\* of the four tiers lies inside the [min, max] sub-range of that tier.
C17_CostWithinTierRange ==
  \A j \in Returned(batch) :
    LET res == batch.call[j].res
    IN  res.complexity \in Tiers =>
          /\ res.estimatedCost.kind = "number"
          /\ TierRange(batch, res.complexity).min <= res.estimatedCost.v
          /\ res.estimatedCost.v <= TierRange(batch, res.complexity).max

\* C18: a run whose request supplies no per-tier ranges works with the four
\* sub-ranges derived from [minBudget, maxBudget] with boundaries at 0%, 25%,
\* 60%, 85%, 100%: low=[100,325], medium=[325,640], high=[640,865],
\* critical=[865,1000] for [100, 1000].
C18_DerivedSubRanges ==
  (batch.prompt # << >> /\ ~batch.tiers) =>
    /\ batch.complexityBudgets = DerivedRanges(batch.prompt[1], batch.prompt[2])
    /\ batch.complexityBudgets =
         <<[min |-> 100, max |-> 325], [min |-> 325, max |-> 640],
           [min |-> 640, max |-> 865], [min |-> 865, max |-> 1000]>>

\* the sum of the costs of the results 1..k
RECURSIVE SumOfCosts(_, _)
SumOfCosts(ests, k) == IF k = 0 THEN 0 ELSE SumOfCosts(ests, k - 1) + ests[k].estimatedCost.v

AllNumbers(ests) == \A k \in DOMAIN ests : ests[k].estimatedCost.kind = "number"

RECURSIVE SumOfCounts(_, _)
SumOfCounts(counts, keys) ==
  IF keys = {} THEN 0
  ELSE LET t == CHOOSE x \in keys : TRUE IN counts[t] + SumOfCounts(counts, keys \ {t})

\* C19: the summary of a run: totalCost is the sum of the estimatedCost of
\* all results (not a number when a cost is not a number), avgCost is the
\* quotient of totalCost and the number of results (not a number for no
\* results), complexityCounts[t] is the number of results of complexity t,
\* and the counts add up to the number of results.
C19_SummaryOfResults ==
  LET ests == batch.estimations
      sum  == batch.summary
  IN  sum.made =>
        /\ batch.returned
        /\ IF AllNumbers(ests)
              THEN sum.totalCost = [kind |-> "number", v |-> SumOfCosts(ests, Len(ests))]
              ELSE sum.totalCost.kind = "NaN"
        /\ IF AllNumbers(ests) /\ Len(ests) > 0
              THEN /\ sum.avgCost.kind = "number"
                   /\ sum.avgCost.num = SumOfCosts(ests, Len(ests))
                   /\ sum.avgCost.den = Len(ests)
              ELSE sum.avgCost.kind = "NaN"
        /\ \A t \in DOMAIN sum.complexityCounts :
             sum.complexityCounts[t] = Cardinality({k \in 1..Len(ests) : ests[k].complexity = t})
        /\ \A k \in 1..Len(ests) : ests[k].complexity \in DOMAIN sum.complexityCounts
        /\ SumOfCounts(sum.complexityCounts, DOMAIN sum.complexityCounts) = Len(ests)

C19_Witness ==
  /\ batch.summary.made
  /\ Len(batch.estimations) = 6
  /\ batch.summary.totalCost = [kind |-> "number", v |-> 4 * 200 + 2 * 5000]
  /\ batch.summary.avgCost = [kind |-> "number", num |-> 10800, den |-> 6]
  /\ batch.summary.complexityCounts = [t \in {"low", "high"} |-> IF t = "low" THEN 4 ELSE 2]
  /\ batch.events[Len(batch.events)].type = "complete"

\* at most one terminal event, nothing enqueued after it, and close() only after it
AtMostOneTerminalAndLast ==
  /\ Cardinality(TerminalEvents(batch)) <= 1
  /\ \A k \in TerminalEvents(batch) : k = Len(batch.events)
  /\ batch.closed => TerminalEvents(batch) # {}

\* C20: every streaming run enqueues exactly one terminal event ('complete'
\* or 'error'), never both and never two of a kind, and enqueues no event
\* after the terminal event or after close().
C20_ExactlyOneTerminalEvent ==
  /\ AtMostOneTerminalAndLast
  /\ batch.pc = "done" => Cardinality(TerminalEvents(batch)) = 1

(***************************************************************************)
(* Properties of the stream when its consumer goes away, of its terminal   *)
(* events, and of the requests with an invalid link.                       *)
(***************************************************************************)
\* C21: when the consumer has disconnected, sendEvent and close do nothing
\* and do not fail: nothing thrown by the cancelled stream is left unhandled,
\* and a run with no failed call goes on through all groups until
\* estimateIssuesBatch has returned.
C21_DisconnectIsHarmless ==
  /\ ~batch.unhandled
  /\ (batch.cancelled /\ batch.pc = "done" /\ Started(batch) # {} /\ FailedCalls(batch) = {})
       => batch.returned

\* a step in which a step of the run fails: the link is missing or invalid,
\* an awaited fetch fails, a call of the awaited group fails, the CSV file
\* cannot be written
FailingStep ==
  \/ \E link \in {"missing", "invalid"}, tiers \in BOOLEAN : Open(link, tiers)
  \/ Context(FALSE)
  \/ \E n \in 0..MaxBatchIssues : Issues(n, FALSE)
  \/ Enriched(FALSE)
  \/ /\ batch.pc = "await"
     /\ \E j \in InFlight(batch), reply \in Replies, disk \in BOOLEAN :
          /\ Settles(j, reply, disk)
          /\ reply \in Failures \/ ~disk
  \/ Complete(FALSE)

\* the step ends the run with one terminal event of this type and close()
EndsWith(type) ==
  /\ batch'.pc = "done"
  /\ batch'.closed /\ ~batch.closed
  /\ ~batch'.unhandled
  /\ Len(batch'.events) > Len(batch.events)
  /\ batch'.events[Len(batch'.events)].type = type
  /\ Cardinality(TerminalEvents(batch')) = 1

\* C22: a streaming run whose external calls all return or fail and whose
\* consumer stays connected ends with a terminal event followed by close():
\* a step that fails enqueues one 'error' event, the last step of a run
\* without failure enqueues 'complete'.
C22_TerminalThenClose ==
  /\ [][(~batch.cancelled /\ FailingStep) => EndsWith("error")]_vars
  /\ [][(~batch.cancelled /\ Complete(TRUE)) => EndsWith("complete")]_vars
  /\ (batch.pc # "idle") ~>
       (batch.cancelled \/ (batch.pc = "done" /\ batch.closed /\ TerminalEvents(batch) # {}))

C22_Witness ==
  /\ batch.pc = "done"
  /\ ~batch.cancelled
  /\ batch.csv
  /\ batch.closed
  /\ batch.events[Len(batch.events)].type = "error"

\* C23: a request whose repoLink or issueLink is missing or is not a GitHub
\* URL is answered with a 4xx status, and no issue-tracker and no inference
\* call is made for it, on every endpoint and also with stream = true.
C23_InvalidInputIs4xx ==
  \A r \in Slots :
    (http[r].pc = "sent" /\ http[r].link # "ok" /\ http[r].decision # "rejected") =>
      /\ StatusOf(http[r].outcome) \in 400..499
      /\ http[r].github = 0
      /\ http[r].inference = 0

\* the same without the streaming mode
InvalidInputIs4xxUnlessStreaming ==
  \A r \in Slots :
    (http[r].pc = "sent" /\ http[r].link # "ok" /\ http[r].decision # "rejected") =>
      /\ http[r].ep # "stream" => StatusOf(http[r].outcome) = 400
      /\ http[r].github = 0
      /\ http[r].inference = 0

(***************************************************************************)
(* The fetch phase of a run: fetchAllOpenIssues page by page, then one     *)
(* enrichIssueWithComments call per issue, all started at once and each    *)
(* reading its comments page by page.                                      *)
(***************************************************************************)

Modes == {"repo", "stream"}

\* const allIssues = await fetchAllOpenIssues(owner, repo): the first page is asked for
StartFetch(ep, all) ==
  /\ tracker.pc = "idle"
  /\ tracker' = [NoFetch EXCEPT !.pc = "pages", !.ep = ep, !.all = all, !.requests = <<1>>]
  /\ UNCHANGED <<clock, store, response, recent, calls, running, shadow, http, batch, sheet, admitted, pager, request>>

\* a page request of fetchAllOpenIssues rejects: nothing catches it before the handler
PageFails_partial(t) ==
  [t EXCEPT !.pageFailed = TRUE, !.returned = TRUE, !.fetched = t.allIssues, !.pc = "fetched"]

PageFails(t) == [t EXCEPT !.pageFailed = TRUE, !.pc = "failed", !.outcome = Thrown(t)]

\* a page request of fetchAllOpenIssues settles
PageReturns(ok) ==
  LET issues == listPage(tracker.all, tracker.page)
      acc    == tracker.allIssues \o actualIssues(issues)
  IN  /\ tracker.pc = "pages"
      /\ tracker' =
           IF ~ok THEN PageFails(tracker)
           ELSE IF LastPage(issues)
             THEN [tracker EXCEPT !.allIssues = acc, !.returned = TRUE, !.fetched = acc,
                                  !.pc = "fetched"]
             ELSE [tracker EXCEPT !.allIssues = acc, !.page = @ + 1,
                                  !.requests = Append(@, tracker.page + 1)]
      /\ UNCHANGED <<clock, store, response, recent, calls, running, shadow, http, batch, sheet, admitted, pager, request>>

\* Promise.all(allIssues.map((issue) => enrichIssueWithComments(owner, repo, issue)));
\* threads[i] is the number of comments of allIssues[i]
FanOut(threads) ==
  /\ tracker.pc = "fetched"
  /\ Len(tracker.fetched) <= SmallPage
  /\ DOMAIN threads = DOMAIN tracker.fetched
  /\ tracker' =
       IF tracker.fetched = << >> THEN [tracker EXCEPT !.pc = "enriched"]
       ELSE [tracker EXCEPT !.pc = "enrich", !.threads = threads,
                            !.jobs = [i \in DOMAIN tracker.fetched |-> NoJob]]
  /\ UNCHANGED <<clock, store, response, recent, calls, running, shadow, http, batch, sheet, admitted, pager, request>>

\* a page request of the fetchIssueComments call of issue i settles
CommentsReturn(i, ok) ==
  LET job      == tracker.jobs[i]
      comments == listPage(Thread(tracker.fetched[i].id, tracker.threads[i]), job.page)
      last     == Len(comments) < perPage
      jobs     == [tracker.jobs EXCEPT ![i] =
                     IF ~ok THEN [job EXCEPT !.pc = "failed"]
                     ELSE [job EXCEPT !.allComments = PushAll(@, comments),
                                      !.page = IF last THEN @ ELSE @ + 1,
                                      !.pc = IF last THEN "done" ELSE @]]
      settled  == IF ok /\ last THEN Append(tracker.settled, i) ELSE tracker.settled
      t        == [tracker EXCEPT !.jobs = jobs, !.settled = settled]
  IN  /\ tracker.pc \in {"enrich", "failed"}
      /\ i \in DOMAIN tracker.jobs
      /\ job.pc = "fetching"
      /\ tracker' =
           IF tracker.pc = "failed" THEN t
           ELSE IF ~ok THEN [t EXCEPT !.pc = "failed", !.outcome = Thrown(tracker)]
           ELSE IF \A j \in DOMAIN jobs : jobs[j].pc = "done"
             THEN [t EXCEPT !.pc = "enriched",
                            !.enrichedIssues = Fulfil(tracker.fetched, jobs, settled)]
             ELSE t
      /\ UNCHANGED <<clock, store, response, recent, calls, running, shadow, http, batch, sheet, admitted, pager, request>>

\* estimateIssuesBatch starts the calls of its first group
StartEstimation ==
  /\ tracker.pc = "enriched"
  /\ tracker' = [tracker EXCEPT !.pc = "estimating",
                                !.inference = Min(batchSize, Len(tracker.enrichedIssues))]
  /\ UNCHANGED <<clock, store, response, recent, calls, running, shadow, http, batch, sheet, admitted, pager, request>>

NextFetch ==
  \/ \E ep \in Modes, all \in Collections : StartFetch(ep, all)
  \/ \E ok \in BOOLEAN : PageReturns(ok)
  \/ \E threads \in UNION {[1..n -> CommentCounts] : n \in 0..SmallPage} : FanOut(threads)
  \/ \E i \in 1..SmallPage, ok \in BOOLEAN : CommentsReturn(i, ok)
  \/ StartEstimation

SpecFetch == Init /\ [][NextFetch]_vars

(***************************************************************************)
(* A client of the batched endpoint: it posts startIndex and batchSize,    *)
(* and as long as the response is not complete posts its nextStartIndex.   *)
(***************************************************************************)
\* the first request of a walk over n open issues
Post(n, size, startIndex) ==
  /\ pager.pc = "idle"
  /\ pager' = [NoPager EXCEPT !.pc = "waiting", !.allIssues = [k \in 1..n |-> k],
                               !.batchSize = size, !.first = startIndex,
                               !.startIndex = startIndex, !.requests = 1]
  /\ UNCHANGED <<clock, store, response, recent, calls, running, shadow, http, batch, tracker, sheet, admitted, request>>

\* the handler answers: 200 with the batch, or 429 / 500; the client goes on
\* from nextStartIndex unless the response is complete
Respond(ok) ==
  LET body == BatchResponse(pager.allIssues, pager.startIndex, pager.batchSize)
      seen == [pager EXCEPT !.responses = Append(@, body),
                            !.got = @ \o body.estimations,
                            !.inference = @ + body.inference]
  IN  /\ pager.pc = "waiting"
      /\ pager' =
           IF ~ok THEN [pager EXCEPT !.pc = "failed"]
           ELSE IF body.isComplete THEN [seen EXCEPT !.pc = "complete"]
           ELSE [seen EXCEPT !.startIndex = body.nextStartIndex.v, !.requests = @ + 1]
      /\ UNCHANGED <<clock, store, response, recent, calls, running, shadow, http, batch, tracker, sheet, admitted, request>>

\* the client starts over
Leave ==
  /\ pager.pc \in {"complete", "failed"}
  /\ pager' = NoPager
  /\ UNCHANGED <<clock, store, response, recent, calls, running, shadow, http, batch, tracker, sheet, admitted, request>>

NextWalk ==
  \/ \E n \in 0..MaxWalk, size \in BatchSizes :
       \E startIndex \in 0..(n + 1) : Post(n, size, startIndex)
  \/ \E ok \in BOOLEAN : Respond(ok)
  \/ Leave

SpecWalk == Init /\ [][NextWalk]_vars

(***************************************************************************)
(* A handler reads the body of a request into its estimation parameters.   *)
(***************************************************************************)
ReadBody(body) ==
  /\ request.pc = "idle"
  /\ request' = [pc |-> "read", body |-> body, estimationParams |-> estimationParams(body)]
  /\ UNCHANGED <<clock, store, response, recent, calls, running, shadow, http, batch, tracker, sheet, admitted, pager>>

\* the request is over
Forget ==
  /\ request.pc = "read"
  /\ request' = NoBody
  /\ UNCHANGED <<clock, store, response, recent, calls, running, shadow, http, batch, tracker, sheet, admitted, pager>>

NextParams ==
  \/ \E body \in Bodies : ReadBody(body)
  \/ Forget

SpecParams == Init /\ [][NextParams]_vars

\* the two loops alone, over collections whose full pages are of one kind and
\* issues whose threads are of one length
PagedCollections ==
  {Items([f \in 1..full |-> kind], last, "issues") :
     full \in 0..MaxFullPages, kind \in {"issues", "pulls"}, last \in LastSizes}

EvenThreads == {[i \in 1..n |-> count] : n \in 0..SmallPage, count \in CommentCounts}

NextPaging ==
  \/ \E all \in PagedCollections : StartFetch("repo", all)
  \/ \E ok \in BOOLEAN : PageReturns(ok)
  \/ \E threads \in EvenThreads : FanOut(threads)
  \/ \E i \in 1..SmallPage, ok \in BOOLEAN : CommentsReturn(i, ok)

\* a list request that is under way settles: it is fulfilled or it is rejected
SpecPaging ==
  /\ Init /\ [][NextPaging]_vars
  /\ WF_vars(\E ok \in BOOLEAN : PageReturns(ok))
  /\ \A i \in 1..SmallPage : WF_vars(\E ok \in BOOLEAN : CommentsReturn(i, ok))

\* the pages fetchAllOpenIssues reads of a collection: up to the first short one
RECURSIVE PagesRead(_, _)
PagesRead(all, page) ==
  IF Len(listPage(all, page)) < perPage THEN page ELSE PagesRead(all, page + 1)

\* the items of a collection that are not pull requests, as the set of their ids
IssueIds(all, upTo) ==
  {all[k].id : k \in {k \in DOMAIN all : k <= upTo * perPage /\ ~all[k].pull_request}}

\* C24: fetchAllOpenIssues returns exactly the items of pages 1..k that are
\* not pull requests, in page order and in-page order, k being the first
\* page with fewer than 100 raw items; it asks for the pages 1..k in turn.
C24_AllIssuesOfAllPages ==
  tracker.returned =>
    LET k == PagesRead(tracker.all, 1)
    IN  /\ tracker.requests = [p \in 1..k |-> p]
        /\ \A i \in DOMAIN tracker.fetched : ~tracker.fetched[i].pull_request
        /\ \A i \in DOMAIN tracker.fetched : tracker.fetched[i] = tracker.all[tracker.fetched[i].id]
        /\ \A i, j \in DOMAIN tracker.fetched : i < j => tracker.fetched[i].id < tracker.fetched[j].id
        /\ {tracker.fetched[i].id : i \in DOMAIN tracker.fetched} = IssueIds(tracker.all, k)

\* a full page of pull requests only was read, contributed nothing, and the
\* issues of the page after it were returned
C24_Witness ==
  /\ tracker.returned
  /\ Len(tracker.requests) = 3
  /\ \A k \in 1..perPage : tracker.all[k].pull_request
  /\ Len(tracker.fetched) = perPage + SmallPage
  /\ tracker.fetched[1].id = perPage + 1

\* a page request of fetchAllOpenIssues has failed
PageFetchFailed == tracker.pageFailed

\* C25: when a page request of fetchAllOpenIssues fails, no further page is
\* requested and no page is requested twice, the caller receives no issue
\* of the pages read before, no enrichment and no estimateIssue call is
\* made, and the run ends with a 500 response or an 'error' event.
C25_PageFailureIsFatal ==
  /\ [](PageFetchFailed =>
          /\ ~tracker.returned
          /\ tracker.fetched = << >>
          /\ tracker.enrichedIssues = << >>
          /\ tracker.inference = 0
          /\ tracker.requests = [p \in 1..tracker.page |-> p]
          /\ tracker.outcome = IF tracker.ep = "stream" THEN "error" ELSE "500")
  /\ [][PageFetchFailed => tracker' = tracker]_vars

\* the request for the second page failed after the first page gave issues
C25_Witness ==
  /\ PageFetchFailed
  /\ tracker.page = 2
  /\ Len(tracker.allIssues) = perPage
  /\ tracker.ep = "stream"

\* the comments of issue i of the list, page after page
CommentsOf(i) == Thread(tracker.fetched[i].id, tracker.threads[i])

\* C26: when the enrichment is over, enrichedIssues[i] carries the number of
\* allIssues[i] for every i, and its comments are the comments of that issue
\* only, all of them, in page order, in whatever order the calls finished.
C26_EnrichmentKeepsPosition ==
  tracker.pc \in {"enriched", "estimating"} =>
    /\ Len(tracker.enrichedIssues) = Len(tracker.fetched)
    /\ \A i \in DOMAIN tracker.fetched :
         /\ tracker.enrichedIssues[i].number = tracker.fetched[i].id
         /\ tracker.enrichedIssues[i].comments = CommentsOf(i)

\* the issues follow a page of pull requests; the call of the last issue
\* finished first and the call of the first issue last, each of them having
\* read more than one page of comments
C26_Witness ==
  /\ tracker.pc = "enriched"
  /\ Len(tracker.fetched) = SmallPage
  /\ tracker.settled[1] = SmallPage
  /\ tracker.settled[SmallPage] = 1
  /\ Len(tracker.enrichedIssues[1].comments) = perPage + 1
  /\ Len(tracker.enrichedIssues[SmallPage].comments) = perPage
  /\ tracker.fetched[1].id = perPage + 1

(***************************************************************************)
(* A call of convertEstimationsToCSV.                                      *)
(***************************************************************************)

Convert(estimations) ==
  LET r == convertEstimationsToCSV(estimations)
  IN  /\ sheet.pc = "idle"
      /\ sheet' = [pc |-> "done", estimations |-> estimations, threw |-> r.threw,
                   csvContent |-> r.csvContent]
      /\ UNCHANGED <<clock, store, response, recent, calls, running, shadow, http, batch, tracker, admitted, pager, request>>

NextCsv == \E estimations \in ResultSets : Convert(estimations)

SpecCsv == Init /\ [][NextCsv]_vars

\* reading a CSV text with the usual rules: a comma or a line feed inside a
\* quoted field, that is after an odd number of double quotes, is text;
\* elsewhere a comma ends the field and a line feed the row; a quoted field
\* loses its two outer quotes and every doubled quote in it stands for one
Separates(text, i) ==
  /\ text[i] \in {Comma, Newline}
  /\ Cardinality({j \in 1..(i - 1) : text[j] = Quote}) % 2 = 0

\* the k-th position of a set of positions
Nth(S, k) == CHOOSE x \in S : Cardinality({y \in S : y < x}) = k - 1

\* where the piece that starts at position from ends: before the next position of S
Before(S, from, len) ==
  IF \E x \in S : x >= from THEN (CHOOSE x \in S : x >= from /\ \A y \in S : y >= from => x <= y) - 1
  ELSE len

RECURSIVE Undouble(_)
Undouble(field) ==
  IF field = << >> THEN << >>
  ELSE IF Head(field) = Quote /\ Len(field) >= 2 /\ field[2] = Quote
    THEN <<Quote>> \o Undouble(Tail(Tail(field)))
    ELSE <<Head(field)>> \o Undouble(Tail(field))

Unquote(field) ==
  IF field # << >> /\ Head(field) = Quote
     THEN Undouble(SubSeq(field, 2, Len(field) - 1))
     ELSE field

ParseCsv(text) ==
  LET seps   == {i \in DOMAIN text : Separates(text, i)}
      breaks == {i \in seps : text[i] = Newline}
      rowAt  == {1} \cup {i + 1 : i \in breaks}
      fields(from, to) ==
        LET inRow == {i \in seps : from <= i /\ i <= to}
            at    == {from} \cup {i + 1 : i \in inRow}
        IN  [c \in 1..Cardinality(at) |->
               Unquote(SubSeq(text, Nth(at, c), Before(inRow, Nth(at, c), to)))]
  IN  [r \in 1..Cardinality(rowAt) |->
         fields(Nth(rowAt, r), Before(breaks, Nth(rowAt, r), Len(text)))]

Parsed == ParseCsv(sheet.csvContent)

Converted == sheet.pc = "done" /\ ~sheet.threw

Special(text) == includes(text, Comma) \/ includes(text, Quote) \/ includes(text, Newline)

\* C28: reading back the text convertEstimationsToCSV returned gives, row by
\* row, the title, the joined labels and the reasoning of the estimation
\* exactly, also when they hold commas, double quotes or line feeds.
C28_RoundTrip ==
  Converted =>
    \A k \in DOMAIN sheet.estimations :
      /\ Len(Parsed) > k
      /\ Len(Parsed[k + 1]) = 7
      /\ Parsed[k + 1][2] = sheet.estimations[k].title.s
      /\ Parsed[k + 1][5] = LabelsJoined(sheet.estimations[k].labels)
      /\ Parsed[k + 1][6] = sheet.estimations[k].reasoning.s

\* a title with a comma and quotes, labels with a comma and a reasoning with
\* a comma, quotes and a line feed were written and read back
C28_Witness ==
  /\ Converted
  /\ Len(sheet.estimations) = 2
  /\ includes(sheet.estimations[1].title.s, Comma)
  /\ includes(sheet.estimations[1].title.s, Quote)
  /\ includes(sheet.estimations[2].title.s, Newline)
  /\ includes(LabelsJoined(sheet.estimations[1].labels), Comma)
  /\ includes(LabelsJoined(sheet.estimations[2].labels), Quote)
  /\ includes(sheet.estimations[1].reasoning.s, Newline)
  /\ Special(sheet.estimations[2].reasoning.s)
  /\ Parsed[2][2] = sheet.estimations[1].title.s

\* C29 as stated: an admitted call adds exactly 1 to the daily and to the
\* short-term count its address had, and leaves the resetTime of a window
\* that has not expired unchanged; the first call of an address leaves both
\* counts at 1 with resetTime = now + 24h and now + 5min.
C29_AdmittedAddsOne ==
  [][\A ip \in IPs :
       (CheckRateLimit(ip) /\ response'.kind = "null")
       => IF Has(ip)
            THEN /\ store'[ip].daily.count = store[ip].daily.count + 1
                 /\ store'[ip].shortTerm.count = store[ip].shortTerm.count + 1
                 /\ ~DailyElapsed(store[ip], clock)
                      => store'[ip].daily.resetTime = store[ip].daily.resetTime
                 /\ ~ShortElapsed(store[ip], clock)
                      => store'[ip].shortTerm.resetTime = store[ip].shortTerm.resetTime
            ELSE /\ store'[ip].daily = [count |-> 1, resetTime |-> clock + 86400000]
                 /\ store'[ip].shortTerm = [count |-> 1, resetTime |-> clock + 300000]
     ]_vars

\* C29 (amended): an admitted call adds exactly 1 to each count as the lazy
\* reset leaves it: a window that has not expired has its count grow by 1
\* and keeps its resetTime, a window that has expired is left with count 1
\* and resetTime = now + horizon; the first call of an address is admitted
\* and leaves both counts at 1 with resetTime = now + 24h and now + 5min.
C29_AdmittedAddsOneAfterReset ==
  [][\A ip \in IPs :
       CheckRateLimit(ip)
       => /\ ~Has(ip) => response'.kind = "null"
          /\ response'.kind = "null" =>
               IF Has(ip)
                 THEN /\ store'[ip].daily =
                           IF DailyElapsed(store[ip], clock)
                             THEN [count |-> 1, resetTime |-> clock + 86400000]
                             ELSE [count |-> store[ip].daily.count + 1,
                                   resetTime |-> store[ip].daily.resetTime]
                      /\ store'[ip].shortTerm =
                           IF ShortElapsed(store[ip], clock)
                             THEN [count |-> 1, resetTime |-> clock + 300000]
                             ELSE [count |-> store[ip].shortTerm.count + 1,
                                   resetTime |-> store[ip].shortTerm.resetTime]
                 ELSE /\ store'[ip].daily = [count |-> 1, resetTime |-> clock + 86400000]
                      /\ store'[ip].shortTerm = [count |-> 1, resetTime |-> clock + 300000]
     ]_vars

\* a call admitted just after the end of the day, in a short window opened
\* just before it: the daily window starts again with count 1 and the short
\* window, not expired, goes from 1 to 2 and keeps its resetTime
C29_Witness ==
  /\ clock = 86400001
  /\ Has("a")
  /\ response = Allow("a")
  /\ store["a"].daily = [count |-> 1, resetTime |-> 172800001]
  /\ store["a"].shortTerm = [count |-> 2, resetTime |-> 86699000]

\* every call that was started has returned or thrown
AllSettled(b) == \A j \in Started(b) : b.call[j].st \in {"ok", "failed"}

C31_ProgressCountsResults ==
  LET calls_ == batch.progress
  IN  /\ \A k \in 1..Len(calls_) : calls_[k][2] = Len(batch.issues)
      /\ \A k \in 1..(Len(calls_) - 1) : calls_[k][1] < calls_[k + 1][1]
      /\ Len(batch.estimations) = IF calls_ = << >> THEN 0 ELSE calls_[Len(calls_)][1]
      /\ (batch.returned /\ Len(batch.issues) > 0) =>
           /\ calls_ # << >>
           /\ calls_[Len(calls_)][1] = Len(batch.issues)

\* the fourth call of a run of 23 issues: 20 results so far, of 23
C31_Witness ==
  /\ Len(batch.issues) = LongList
  /\ Len(batch.progress) = 4
  /\ Len(batch.estimations) = 20
  /\ batch.progress[4] = <<20, LongList>>
  /\ batch.pc = "loop"

\* the call about to be made for ip is the retry of a denied call, made
\* retryAfter seconds after it with no call for ip in between
RetryOnTime(ip) ==
  /\ response.status = 429
  /\ response.ip = ip
  /\ clock = response.at + 1000 * response.retryAfter

\* C32: a call denied at t with retryAfter r is followed, when the next call
\* of the address is made at t + 1000 r, by an admission, also when that
\* instant is exactly the resetTime of the window that denied.
C32_RetryHintSuffices ==
  [][\A ip \in IPs : (RetryOnTime(ip) /\ CheckRateLimit(ip)) => response'.kind = "null"]_vars

\* C33: a checkRateLimit call at now leaves both windows of its address with
\* resetTime >= now, and no step makes the resetTime of a window smaller
\* than it was, also when the entry was deleted by the timer in between.
C33_ResetTimeAheadAndMonotone ==
  [][\A ip \in IPs :
       /\ CheckRateLimit(ip)
            => /\ store'[ip].daily.resetTime >= clock
               /\ store'[ip].shortTerm.resetTime >= clock
       /\ (ip \in DOMAIN store /\ ip \in DOMAIN store')
            => /\ store'[ip].daily.resetTime >= store[ip].daily.resetTime
               /\ store'[ip].shortTerm.resetTime >= store[ip].shortTerm.resetTime
       /\ (ip \in DOMAIN shadow.store /\ ip \in DOMAIN store')
            => /\ store'[ip].daily.resetTime >= shadow.store[ip].daily.resetTime
               /\ store'[ip].shortTerm.resetTime >= shadow.store[ip].shortTerm.resetTime
     ]_vars

\* a call just after the end of the day found the daily window expired and
\* the short-term window, opened just before, not: the first was moved on,
\* the second left where it was
C33_Witness ==
  /\ clock = 86400001
  /\ Has("a")
  /\ store["a"].daily.resetTime = 86400001 + 86400000
  /\ store["a"].shortTerm.resetTime = 86399000 + 300000
  /\ store["a"].shortTerm.count = 10
  /\ response.kind = "short"

\* the entries of a store for one address only
OwnEntries(st, ip) == [k \in DOMAIN st \cap {ip} |-> st[k]]

\* C34: a checkRateLimit call for an address leaves the entry of every other
\* address as it was (present or not, counts and resetTimes), and what it
\* returns and the entry it leaves are what the same call gives on a store
\* that holds the entry of its own address only.
C34_KeysAreIndependent ==
  [][\A ip \in IPs :
       CheckRateLimit(ip)
       => /\ \A other \in IPs \ {ip} :
               /\ (other \in DOMAIN store') = (other \in DOMAIN store)
               /\ other \in DOMAIN store => store'[other] = store[other]
          /\ response' = checkRateLimit(OwnEntries(store, ip), ip, clock).resp
          /\ store'[ip] = checkRateLimit(OwnEntries(store, ip), ip, clock).store[ip]
     ]_vars

\* address a has just been denied at its tenth call of the window while the
\* entry of address b stands at one call
C34_Witness ==
  /\ Has("a") /\ Has("b")
  /\ response.ip = "a"
  /\ response.kind = "short"
  /\ store["a"].shortTerm.count = 10
  /\ store["b"].shortTerm.count = 1
  /\ store["b"].daily.count = 1

(***************************************************************************)
(* The two handlers that call checkRateLimit, POST of the batched endpoint *)
(* and GET /healthcheck, serving clients with and without x-forwarded-for  *)
(* on the one store.                                                       *)
(***************************************************************************)
SharedTimes == {SHORT_HORIZON + 1000, DAILY_HORIZON + 1}

SharedTick == TickTo(SharedTimes)

NextShared ==
  \/ SharedTick
  \/ \E r \in Slots, ep \in SharedEndpoints, c \in Clients \ Proxied, link \in Links, start \in 0..1 :
       Receive(r, ep, c, link, start)
  \/ \E r \in Slots : RateLimit(r)
  \/ \E r \in Slots : Health(r)
  \/ \E r \in Slots : Validate(r)
  \/ \E r \in Slots, ok \in BOOLEAN : FetchRepoContext(r, ok)
  \/ \E r \in Slots, n \in 0..MaxIssues, ok \in BOOLEAN : FetchAllOpenIssues(r, n, ok)
  \/ \E r \in Slots : Slice(r)
  \/ \E r \in Slots, ok \in BOOLEAN : Enrich(r, ok)
  \/ \E r \in Slots, ok \in BOOLEAN : EstimateBatch(r, ok)
  \/ \E r \in Slots : Finish(r)
  \/ Sweep

SpecShared == Init /\ [][NextShared]_vars

\* the admitted requests of the clients in C that are not older than instant from
RECURSIVE AdmittedOf(_, _)
AdmittedOf(C, from) ==
  IF C = {} THEN 0
  ELSE LET c == CHOOSE x \in C : TRUE
       IN  Cardinality({i \in 1..Len(admitted[c]) : admitted[c][i] >= from})
             + AdmittedOf(C \ {c}, from)

\* the short window of key ip is open at the instant of the call
ShortOpen(ip) == Has(ip) /\ clock <= store[ip].shortTerm.resetTime

\* C35: every request without x-forwarded-for is served under the key
\* 'unknown', and once 10 requests of header-less clients have been admitted
\* in the open short window of that key, the next request of any header-less
\* client in that window is answered 429.
C35_HeaderLessShareUnknown ==
  /\ [](\A r \in Slots :
          (http[r].pc # "idle" /\ http[r].client \in HeaderLess) => http[r].ip = "unknown")
  /\ [][\A r \in Slots :
          (/\ RateLimit(r)
           /\ http[r].client \in HeaderLess
           /\ ShortOpen("unknown")
           /\ AdmittedOf(HeaderLess,
                         store["unknown"].shortTerm.resetTime - SHORT_HORIZON) >= 10)
          => (/\ response'.status = 429
              /\ http'[r].outcome = "429"
              /\ store'["unknown"].shortTerm.count = 10)]_vars

\* ten requests of one header-less client were admitted, and the request of
\* the other one at the same instant has been answered 429
C35_Witness ==
  /\ Len(admitted["d1"]) = 10
  /\ admitted["d2"] = << >>
  /\ http[1].client = "d2"
  /\ http[1].ip = "unknown"
  /\ http[1].outcome = "429"
  /\ DOMAIN store = {"unknown"}
  /\ store["unknown"].shortTerm.count = 10

\* the count of window w of key ip in store st; 0 for a key it does not hold
CountOf(st, ip, w) == IF ip \in DOMAIN st THEN st[ip][w].count ELSE 0

\* the same count once the lazy reset of a call at instant now has run
FreshCountOf(st, ip, w, now) ==
  IF ip \in DOMAIN st /\ ~(st[ip][w].resetTime < now) THEN st[ip][w].count ELSE 0

Windows == {"daily", "shortTerm"}

\* C36 as stated: every admitted request of the batched endpoint and of the
\* healthcheck adds 1 to both counts of its key, and no step ever lowers a count.
C36_AdmittedAddsOneNeverLess ==
  [][/\ \A r \in Slots : \A w \in Windows :
          (RateLimit(r) /\ response'.status # 429)
            => CountOf(store', http[r].ip, w) = CountOf(store, http[r].ip, w) + 1
     /\ \A ip \in DOMAIN store : \A w \in Windows :
          CountOf(store', ip, w) >= CountOf(store, ip, w)]_vars

\* C36 (amended): a request of the batched endpoint or of the healthcheck is
\* answered only after checkRateLimit has decided on it; an admitted one adds 1
\* to both counts of its key as the lazy reset leaves them; no later step of
\* its handler, the replies 400 and 500 included, changes the store; and a
\* count goes down only when its window has expired.
C36_AdmissionIsNotRefunded ==
  /\ [](\A r \in Slots :
          (http[r].ep \in {"batched", "health"} /\ http[r].pc \notin {"idle", "rate"})
            => IF http[r].outcome = "429" THEN http[r].decision = "rejected"
               ELSE http[r].decision = "admitted")
  /\ [][/\ \A r \in Slots : \A w \in Windows :
             (RateLimit(r) /\ response'.status # 429)
               => /\ http'[r].decision = "admitted"
                  /\ CountOf(store', http[r].ip, w)
                       = FreshCountOf(store, http[r].ip, w, clock) + 1
        /\ \A r \in Slots :
             (http[r].decision = "admitted" /\ http'[r] # http[r]) => store' = store
        /\ \A ip \in DOMAIN store : \A w \in Windows :
             CountOf(store', ip, w) < CountOf(store, ip, w)
               => store[ip][w].resetTime < clock]_vars

\* the third admitted request of the header-less clients, a batched one, has
\* been answered 500 and both counts of 'unknown' stand at 3
C36_Witness ==
  /\ http[1].ep = "batched"
  /\ http[1].decision = "admitted"
  /\ http[1].outcome = "500"
  /\ http[1].client = "d2"
  /\ Len(admitted["d1"]) = 2
  /\ Len(admitted["d2"]) = 1
  /\ clock = 0
  /\ store["unknown"].daily.count = 3
  /\ store["unknown"].shortTerm.count = 3

(***************************************************************************)
(* The page requests of the tracker loops, the requests of a client that   *)
(* walks the batched endpoint, the parameters of a run and the empty run.  *)
(***************************************************************************)
\* floor(n / 100) + 1
PagesFor(n) == (n \div perPage) + 1

\* pages 1, 2, ..., k
UpTo(k) == [p \in 1..k |-> p]

Fetching(i) == i \in DOMAIN tracker.jobs /\ tracker.jobs[i].pc = "fetching"

\* C37: fetchAllOpenIssues asks for the pages 1, 2, ... in this order and never
\* for more than floor(n / 100) + 1 of them, a call of it that returns has
\* asked for exactly that many over n raw items, and its last page was short,
\* empty when n is a multiple of 100; the same holds of every
\* fetchIssueComments call over the n comments of its issue; and both loops
\* end: a call that is waiting for a page stops waiting.
C37_PagesAreCounted ==
  /\ [](/\ tracker.requests = UpTo(Len(tracker.requests))
        /\ Len(tracker.requests) <= PagesFor(Len(tracker.all))
        /\ tracker.pc # "idle" => tracker.page = Len(tracker.requests)
        /\ (tracker.returned /\ ~tracker.pageFailed)
             => /\ Len(tracker.requests) = PagesFor(Len(tracker.all))
                /\ Len(listPage(tracker.all, tracker.page)) = Len(tracker.all) % perPage
        /\ \A i \in DOMAIN tracker.jobs :
             /\ tracker.jobs[i].page <= PagesFor(tracker.threads[i])
             /\ tracker.jobs[i].pc = "done"
                  => tracker.jobs[i].page = PagesFor(tracker.threads[i]))
  /\ [][\A i \in DOMAIN tracker.jobs :
          i \in DOMAIN tracker'.jobs
            => tracker'.jobs[i].page \in {1, tracker.jobs[i].page, tracker.jobs[i].page + 1}]_vars
  /\ (tracker.pc = "pages") ~> (tracker.pc \in {"fetched", "failed"})
  /\ \A i \in 1..SmallPage : Fetching(i) ~> ~Fetching(i)

\* 200 raw items cost three requests, the third one answered with an empty page
C37_Witness ==
  /\ tracker.pc = "fetched"
  /\ Len(tracker.all) = 2 * perPage
  /\ tracker.requests = <<1, 2, 3>>
  /\ listPage(tracker.all, 3) = << >>
  /\ Len(tracker.fetched) = 2 * perPage

\* ceil(n / batchSize), and 1 for n = 0
RequestsFor(n, size) == IF n = 0 THEN 1 ELSE (n + size - 1) \div size

\* the walk started at startIndex 0
FromStart == pager.pc # "idle" /\ pager.first = 0

\* what a walk from startIndex 0 has got so far is the head of the list, each
\* issue once and in list order, at the cost of one estimateIssue call per issue;
\* a complete one has got the whole list in ceil(n / batchSize) requests; and a
\* request with startIndex at or beyond n is answered with processedCount 0,
\* isComplete true, and no estimateIssue call
WalkCoversList ==
  /\ FromStart =>
       /\ pager.got = [i \in 1..Len(pager.got) |-> [issueNumber |-> pager.allIssues[i]]]
       /\ pager.inference = Len(pager.got)
       /\ pager.requests <= RequestsFor(Len(pager.allIssues), pager.batchSize)
       /\ pager.pc = "complete" =>
            /\ Len(pager.got) = Len(pager.allIssues)
            /\ pager.requests = RequestsFor(Len(pager.allIssues), pager.batchSize)
            /\ Len(pager.responses) = pager.requests
  /\ \A k \in DOMAIN pager.responses :
       pager.responses[k].startIndex >= Len(pager.allIssues)
         => /\ pager.responses[k].processedCount = 0
            /\ pager.responses[k].isComplete
            /\ pager.responses[k].inference = 0

Supplied == {f \in TierFields : request.body[f] # Undefined}

\* C39: complexityBudgets is set exactly when the body supplies all eight
\* per-tier fields, and then holds Number() of each of them; with any of them
\* missing the parameters hold no per-tier value at all; and minBudget,
\* maxBudget and model are the body's, or each by itself 100, 1000 and
\* gpt-5-nano when the body leaves it out.
C39_TiersAllOrNothing ==
  request.pc = "read" =>
    LET params == request.estimationParams
        body   == request.body
    IN  /\ DOMAIN params = {"minBudget", "maxBudget", "model", "complexityBudgets"}
        /\ params.complexityBudgets # Undefined <=> Cardinality(Supplied) = 8
        /\ Cardinality(Supplied) < 8 => params.complexityBudgets = Undefined
        /\ Cardinality(Supplied) = 8 =>
             /\ DOMAIN params.complexityBudgets = {"low", "medium", "high", "critical"}
             /\ params.complexityBudgets.low.min = ToNumber(body["lowMin"])
             /\ params.complexityBudgets.critical.max = ToNumber(body["criticalMax"])
             /\ body["lowMin"] = Num(250) => params.complexityBudgets.low.min = Num(250)
        /\ params.minBudget =
             IF body["minBudget"] \in {Undefined, Null} THEN Num(100) ELSE body["minBudget"]
        /\ params.maxBudget =
             IF body["maxBudget"] \in {Undefined, Null} THEN Num(1000) ELSE body["maxBudget"]
        /\ params.model = IF body["model"] \in {Undefined, Null} THEN "gpt-5-nano" ELSE body["model"]

\* seven of the eight per-tier fields and maxBudget are supplied: no
\* complexityBudgets, minBudget 100 by default, maxBudget as supplied
C39_Witness ==
  /\ request.pc = "read"
  /\ Supplied = TierFields \ {"criticalMax"}
  /\ request.body["lowMin"] = Num(250)
  /\ request.body["minBudget"] = Undefined
  /\ request.body["maxBudget"] = Num(500)
  /\ request.body["model"] = Undefined
  /\ request.estimationParams.complexityBudgets = Undefined
  /\ request.estimationParams.minBudget = Num(100)
  /\ request.estimationParams.maxBudget = Num(500)
  /\ request.estimationParams.model = "gpt-5-nano"

\* the run over a repository without open issues, once estimateIssuesBatch
\* has returned
EmptyRun == batch.returned /\ batch.issues = << >>

Last(s) == s[Len(s)]

\* C40: in a run over no open issues estimateIssuesBatch makes no
\* estimateIssue call and no onProgress call and returns the empty list, and
\* the summary step, when the CSV file can be written and the consumer is
\* still there, ends the stream with the complete event: no estimations,
\* totalCost 0, avgCost not a number (0 / 0), an empty histogram of the tiers
\* and the CSV made, which convertEstimationsToCSV gives for these
\* estimations as the header line alone.
C40_EmptyRunCompletes ==
  /\ [](EmptyRun =>
          /\ batch.call = << >>
          /\ batch.progress = << >>
          /\ batch.estimations = << >>
          /\ \A k \in DOMAIN batch.events : batch.events[k].message # "BATCH"
          /\ batch.summary.made =>
               batch.summary = [made |-> TRUE, totalCost |-> Num(0),
                                avgCost |-> [kind |-> "NaN", num |-> 0, den |-> 0],
                                complexityCounts |-> << >>])
  /\ [][(EmptyRun /\ ~batch.cancelled /\ Complete(TRUE))
          => /\ batch'.pc = "done"
             /\ batch'.closed /\ ~batch'.unhandled
             /\ Last(batch'.events).type = "complete"
             /\ \A k \in DOMAIN batch'.events : batch'.events[k].type # "error"
             /\ batch'.summary.made
             /\ batch'.csv
             /\ convertEstimationsToCSV(batch'.estimations)
                  = [threw |-> FALSE, csvContent |-> header]]_vars

\* the run over no issues is over: complete, the CSV is its header line
C40_Witness ==
  /\ batch.pc = "done"
  /\ EmptyRun
  /\ batch.closed
  /\ Last(batch.events).type = "complete"
  /\ batch.summary.totalCost = Num(0)
  /\ batch.summary.avgCost.kind = "NaN"
  /\ batch.summary.complexityCounts = << >>
  /\ batch.csv
  /\ batch.estimations = << >>

====
